---------------------------- MODULE Spec2Model ----------------------------
(***************************************************************************)
(* Model of the MyArm 300 kinematics engine (iksolver_myarm300.py) and of  *)
(* the workspace filter of scan.py.                                        *)
(*                                                                         *)
(* Numbers.  Positions are integer millimetres.  Angles are fixed point,   *)
(* AngleScale units to the degree.  The two square roots and the square of *)
(* the reachability test are IEEE-754 binary64 operations, rounded to      *)
(* nearest-even on 53-bit significands held in multi-limb naturals, so the *)
(* test d_to_wrist > max_reach decides as the interpreter decides it.      *)
(* Trigonometric values are computed by CORDIC iterations on integers.     *)
(***************************************************************************)
EXTENDS Integers, Sequences, FiniteSets, TLC

(***************************************************************************)
(* Chain constants and joint limits (degrees).                             *)
(***************************************************************************)
BASE_HEIGHT == 165
LINK1_LENGTH == 110
LINK2_LENGTH == 126
WRIST_LENGTH == 56

JOINT_LIMITS == << <<-160, 160>>, <<-80, 80>>, <<-165, 165>>, <<-100, 80>>,
                   <<-165, 165>>, <<-110, 110>>, <<-165, 165>> >>

\* None, the "unreachable" result of the solver.
None == <<>>

Abs(n) == IF n < 0 THEN -n ELSE n
Max(a, b) == IF a >= b THEN a ELSE b
Min(a, b) == IF a <= b THEN a ELSE b

(***************************************************************************)
(* Evaluation order.  With(v, Body) is Body(v) with v evaluated first and  *)
(* once, as an assignment to a local variable is.  Iterate runs a loop:    *)
(* the first half of the steps is evaluated before the second half starts. *)
(***************************************************************************)
With(v, Body(_)) == CHOOSE out \in {Body(x) : x \in {v}} : TRUE

\* F(.., hi) after ... after F(.., lo + 1) after F(x, lo), for lo <= hi
RECURSIVE Iterate(_, _, _, _)
Iterate(F(_, _), x, lo, hi) ==
    IF lo = hi THEN F(x, lo)
    ELSE With(Iterate(F, x, lo, (lo + hi) \div 2),
              LAMBDA half : Iterate(F, half, (lo + hi) \div 2 + 1, hi))

(***************************************************************************)
(* Multi-limb naturals: little-endian tuples of NumLimbs limbs, each in    *)
(* 0 .. LimbBase-1.  They carry the 53-bit significands and the 106-bit    *)
(* products and radicands of the binary64 operations.                      *)
(***************************************************************************)
LimbBits == 13
LimbBase == 2^LimbBits
BigZero == <<0, 0, 0, 0, 0, 0, 0, 0, 0>>
NumLimbs == Len(BigZero)
Limbs == 1..NumLimbs

\* propagate the carries of the limb sums s[1] .. s[9]
Carry(s) ==
    LET t1 == s[1]
        t2 == s[2] + t1 \div LimbBase
        t3 == s[3] + t2 \div LimbBase
        t4 == s[4] + t3 \div LimbBase
        t5 == s[5] + t4 \div LimbBase
        t6 == s[6] + t5 \div LimbBase
        t7 == s[7] + t6 \div LimbBase
        t8 == s[8] + t7 \div LimbBase
        t9 == s[9] + t8 \div LimbBase
    IN  <<t1 % LimbBase, t2 % LimbBase, t3 % LimbBase, t4 % LimbBase,
          t5 % LimbBase, t6 % LimbBase, t7 % LimbBase, t8 % LimbBase,
          t9 % LimbBase>>

BigFromInt(n) == <<n % LimbBase, (n \div LimbBase) % LimbBase,
                   n \div (LimbBase * LimbBase), 0, 0, 0, 0, 0, 0>>
BigAdd(a, b) == Carry([i \in Limbs |-> a[i] + b[i]])
BigSub(a, b) == Carry([i \in Limbs |-> a[i] - b[i]])

\* a[lo]*b[k+1-lo] + ... + a[hi]*b[k+1-hi]
RECURSIVE ColSum(_, _, _, _, _)
ColSum(a, b, k, lo, hi) ==
    IF lo = hi THEN a[lo] * b[k + 1 - lo]
    ELSE ColSum(a, b, k, lo, (lo + hi) \div 2)
         + ColSum(a, b, k, (lo + hi) \div 2 + 1, hi)

BigMul(a, b) == Carry([k \in Limbs |-> ColSum(a, b, k, 1, k)])

BigGe(a, b) ==
    \/ a = b
    \/ \E i \in Limbs : a[i] > b[i] /\ \A k \in (i + 1)..NumLimbs : a[k] = b[k]
BigGt(a, b) == a # b /\ BigGe(a, b)

BigPow2(k) == [i \in Limbs |-> IF i = (k \div LimbBits) + 1
                                THEN 2^(k % LimbBits) ELSE 0]

\* a * 2^k
BigShl(a, k) ==
    Carry([i \in Limbs |-> IF i > k \div LimbBits
                           THEN a[i - k \div LimbBits] * 2^(k % LimbBits) ELSE 0])

\* floor(a / 2^k)
BigShr(a, k) ==
    Carry([i \in Limbs |->
        (IF i + k \div LimbBits <= NumLimbs
         THEN a[i + k \div LimbBits] \div 2^(k % LimbBits) ELSE 0)
        + (IF i + k \div LimbBits + 1 <= NumLimbs
           THEN (a[i + k \div LimbBits + 1] % 2^(k % LimbBits))
                * 2^(LimbBits - (k % LimbBits))
           ELSE 0)])

\* the number of bits of n, 0 <= n < 2^31
IntBitLen(n) ==
    IF n >= 2^30 THEN 31
    ELSE CHOOSE k \in 0..30 : n < 2^k /\ (k = 0 \/ n >= 2^(k - 1))

BigBitLen(a) ==
    IF a = BigZero THEN 0
    ELSE With(CHOOSE i \in Limbs : a[i] # 0 /\ \A k \in (i + 1)..NumLimbs : a[k] = 0,
              LAMBDA top : (top - 1) * LimbBits + IntBitLen(a[top]))

\* One digit of the integer square root by digit recurrence, on the state
\* <<remainder, root so far, digit position>>.
SqrtStep(st, i) ==
    With(BigAdd(st[2], BigPow2(2 * st[3])), LAMBDA t :
    With(BigShr(st[2], 1), LAMBDA shifted :
        IF BigGe(st[1], t)
        THEN <<BigSub(st[1], t), BigAdd(shifted, BigPow2(2 * st[3])), st[3] - 1>>
        ELSE <<st[1], shifted, st[3] - 1>>))

\* <<floor(sqrt(n)), remainder>>
BigSqrtRem(n) ==
    IF n = BigZero THEN <<BigZero, BigZero>>
    ELSE With((BigBitLen(n) - 1) \div 2, LAMBDA top :
         With(Iterate(SqrtStep, <<n, BigZero, top>>, 0, top), LAMBDA st :
              <<st[2], st[1]>>))

(***************************************************************************)
(* binary64 values m * 2^e, m a multi-limb natural of at most 53 bits.     *)
(***************************************************************************)
MantBits == 53

\* N * 2^e with the sh low bits of N rounded away: to nearest, ties to even
\* (sticky: a non-zero part below N was dropped before)
RoundBits(N, e, sticky, sh) ==
    With(BigShr(N, sh), LAMBDA top :
    With(BigSub(N, BigShl(top, sh)), LAMBDA low :
        [m |-> IF \/ BigGt(low, BigPow2(sh - 1))
                  \/ low = BigShl(BigFromInt(1), sh - 1)
                     /\ (sticky \/ top[1] % 2 = 1)
               THEN BigAdd(top, BigFromInt(1)) ELSE top,
         e |-> e + sh]))

\* Round the exact value N * 2^e to a 53-bit significand
Round53(N, e, sticky) ==
    With(BigBitLen(N), LAMBDA len :
        IF len <= MantBits THEN [m |-> N, e |-> e]
        ELSE RoundBits(N, e, sticky, len - MantBits))

FInt(k) == [m |-> BigFromInt(k), e |-> 0]

\* a * b
FMul(a, b) == With(BigMul(a.m, b.m), LAMBDA N : Round53(N, a.e + b.e, FALSE))

\* a + b
FAdd(a, b) ==
    With(BigAdd(BigShl(a.m, a.e - Min(a.e, b.e)), BigShl(b.m, b.e - Min(a.e, b.e))),
         LAMBDA N : Round53(N, Min(a.e, b.e), FALSE))

\* the radicand a.m * 2^k of 109 or 110 bits, a.e - k even
SqrtShift(a) ==
    With(110 - BigBitLen(a.m), LAMBDA k0 : IF (a.e - k0) % 2 = 0 THEN k0 ELSE k0 + 1)

\* math.sqrt(a): correctly rounded
FSqrt(a) ==
    IF a.m = BigZero THEN FInt(0)
    ELSE With(SqrtShift(a), LAMBDA k :
         With(BigShl(a.m, k), LAMBDA n :
         With(BigSqrtRem(n), LAMBDA sr :
              Round53(sr[1], (a.e - k) \div 2, sr[2] # BigZero))))

\* a > b
FGt(a, b) ==
    With(BigShl(a.m, a.e - Min(a.e, b.e)), LAMBDA x :
    With(BigShl(b.m, b.e - Min(a.e, b.e)), LAMBDA y : BigGt(x, y)))

\* a < b
FLt(a, b) == FGt(b, a)

(***************************************************************************)
(* Fixed-point angles and integer helpers.                                 *)
(***************************************************************************)
AngleScale == 10^6
Deg(n) == n * AngleScale

RoundDiv(a, b) == (2 * a + b) \div (2 * b)

\* one Newton step towards floor(sqrt(n)) on the state <<x, n>>, x above
\* the root; the state stays once the root is reached
SqrtNewton(st, i) ==
    LET x == st[1]
        n == st[2]
        y == (x + n \div x) \div 2
    IN  IF y >= x THEN st ELSE <<y, n>>

\* floor(sqrt(n)) for 0 <= n < 2^31
ISqrt(n) ==
    IF n = 0 THEN 0
    ELSE Iterate(SqrtNewton, <<2^((IntBitLen(n) + 1) \div 2), n>>, 1, 8)[1]

(***************************************************************************)
(* math.atan2, math.cos, math.sin, math.acos by CORDIC.  AtanTable[i] is   *)
(* atan(2^-(i-1)) in angle units.                                          *)
(***************************************************************************)
AtanTable == <<45000000, 26565051, 14036243, 7125016, 3576334, 1789911,
               895174, 447614, 223811, 111906, 55953, 27976, 13988, 6994,
               3497, 1749, 874, 437, 219, 109, 55, 27, 14, 7>>
CordicIters == Len(AtanTable)

\* <<y, x>> doubled until the larger magnitude reaches 2^25
ScaleUp(y, x) ==
    LET m == Max(Abs(x), Abs(y))
        k == CHOOSE k \in 0..25 : m * 2^k >= 2^25
    IN  IF m >= 2^25 THEN <<y, x>> ELSE <<y * 2^k, x * 2^k>>

\* one vectoring step on <<x, y, z>>: rotate towards y = 0, accumulate in z
Vectoring(s, i) ==
    LET x == s[1]
        y == s[2]
        z == s[3]
    IN  IF y = 0 THEN s
        ELSE IF y > 0
        THEN <<x + y \div 2^(i-1), y - x \div 2^(i-1), z + AtanTable[i]>>
        ELSE <<x - y \div 2^(i-1), y + x \div 2^(i-1), z - AtanTable[i]>>

\* the angle of (x, y), x > 0
VectorAngle(x, y) == Iterate(Vectoring, <<x, y, 0>>, 1, CordicIters)[3]

\* math.degrees(math.atan2(y, x)) in angle units, in [-180, 180] degrees
Atan2(y, x) ==
    IF x = 0 /\ y = 0 THEN 0
    ELSE IF x = 0 THEN (IF y > 0 THEN Deg(90) ELSE -Deg(90))
    ELSE With(ScaleUp(y, x), LAMBDA s :
              IF s[2] > 0 THEN VectorAngle(s[2], s[1])
              ELSE IF s[1] >= 0 THEN Deg(180) + VectorAngle(-s[2], -s[1])
              ELSE VectorAngle(-s[2], -s[1]) - Deg(180))

\* math.degrees(math.acos(n / m)) for |n| <= m, 0 < m < 2^15
Acos(n, m) == With(ISqrt(m * m - n * n), LAMBDA opposite : Atan2(opposite, n))

TrigScale == 2^14

\* 2^28 / (CORDIC gain 1.6467602581)
CordicStart == 163008219

\* one rotation step on <<x, y, z>>: rotate by the angle left in z
Rotation(s, i) ==
    LET x == s[1]
        y == s[2]
        z == s[3]
    IN  IF z >= 0
        THEN <<x - y \div 2^(i-1), y + x \div 2^(i-1), z - AtanTable[i]>>
        ELSE <<x + y \div 2^(i-1), y - x \div 2^(i-1), z + AtanTable[i]>>

\* theta wrapped into [-180, 180) degrees
WrapAngle(theta) == ((theta + Deg(180)) % Deg(360)) - Deg(180)

\* <<cos(theta), sin(theta)>> scaled by TrigScale; theta in angle units
CosSin(theta) ==
    With(WrapAngle(theta), LAMBDA w :
    With(Iterate(Rotation,
                 <<CordicStart, 0, IF w > Deg(90) THEN Deg(180) - w
                                   ELSE IF w < -Deg(90) THEN -Deg(180) - w ELSE w>>,
                 1, CordicIters), LAMBDA cs :
         <<IF w > Deg(90) \/ w < -Deg(90)
           THEN -RoundDiv(cs[1], 2^14) ELSE RoundDiv(cs[1], 2^14),
           RoundDiv(cs[2], 2^14)>>))


(***************************************************************************)
(* Call outcomes: a returned value, or a raised exception.                 *)
(***************************************************************************)
Return(v) == [raised |-> "", value |-> v]
Raise(e) == [raised |-> e, value |-> None]

Lo(i) == Deg(JOINT_LIMITS[i][1])
Hi(i) == Deg(JOINT_LIMITS[i][2])

\* limits taken as exclusive
StrictlyWithinLimits(angle, i) == Lo(i) < angle /\ angle < Hi(i)

\* JOINT_LIMITS[i][0] <= angle <= JOINT_LIMITS[i][1]
WithinLimits(angle, i) == Lo(i) <= angle /\ angle <= Hi(i)

\* a clamp that forgets the lower limit
ClampFromAbove(angle, i) == Min(Hi(i), angle)

\* a clamp with its two bounds exchanged
ClampBoundsExchanged(angle, i) == Min(Lo(i), Max(Hi(i), angle))

\* max(JOINT_LIMITS[i][0], min(JOINT_LIMITS[i][1], angle))
Clamp(angle, i) == Max(Lo(i), Min(Hi(i), angle))

(***************************************************************************)
(* cartesian_to_angles, step by step.  A direction is an integer vector.   *)
(***************************************************************************)
\* a base rotation with the arguments of atan2 exchanged
Joint1AboutDiagonal(position) == Atan2(position[1], position[2])

\* joint1 before the limit check
Joint1Raw(position) == Atan2(position[2], position[1])

\* ee_to_target: [0, 0, -1] when no orientation is given
EeToTarget(target_orientation) ==
    IF target_orientation = None THEN <<0, 0, -1>> ELSE target_orientation

\* wrist centre: the position backed off by WRIST_LENGTH along ee_to_target
WristCenter(position, ee_to_target) ==
    <<position[1] - WRIST_LENGTH * ee_to_target[1],
      position[2] - WRIST_LENGTH * ee_to_target[2],
      position[3] - WRIST_LENGTH * ee_to_target[3]>>

WristZRel(wc) == wc[3] - BASE_HEIGHT

\* wrist_r = math.sqrt(wx*wx + wy*wy), binary64
WristR(wc) == With(FInt(wc[1] * wc[1] + wc[2] * wc[2]), LAMBDA sq : FSqrt(sq))

\* d_to_wrist = math.sqrt(wrist_r*wrist_r + wrist_z_rel*wrist_z_rel), binary64
DToWrist(wc) ==
    With(WristR(wc), LAMBDA wrist_r :
    With(FMul(wrist_r, wrist_r), LAMBDA r_sq :
    With(FAdd(r_sq, FInt(WristZRel(wc) * WristZRel(wc))), LAMBDA sum :
         FSqrt(sum))))

\* the exact squared distance from the joint-2 origin to the wrist centre
DistSq(wc) == wc[1] * wc[1] + wc[2] * wc[2] + WristZRel(wc) * WristZRel(wc)

max_reach == LINK1_LENGTH + LINK2_LENGTH
min_reach == Abs(LINK1_LENGTH - LINK2_LENGTH)

\* a reach test that counts the wrist extension as part of the reach
TooFarForWholeArm(d_to_wrist) == FGt(d_to_wrist, FInt(max_reach + WRIST_LENGTH))

\* the two tests on d_to_wrist that return None
TooFar(d_to_wrist) == FGt(d_to_wrist, FInt(max_reach))
TooClose(d_to_wrist) == FLt(d_to_wrist, FInt(min_reach))

\* the units in the last place by which the binary64 d_sq lies below the
\* integer d2 of [2^15, 2^16), whose last place is 2^(16 - MantBits)
UlpsBelow(d_sq, d2) ==
    With(BigSub(BigShl(BigFromInt(d2), MantBits - 16),
                BigShl(d_sq.m, d_sq.e + MantBits - 16)),
         LAMBDA diff : diff[1] + diff[2] * LimbBase)

\* 180 - degrees(acos(-1 + k * 2^-MantBits)): sqrt(k * 2^-52) radians, which
\* is sqrt(k) * 0.85378 angle units
AngleBelowStraight(k) == RoundDiv(ISqrt(k * 10^6) * 85378, 10^8)

\* joint3 before the limit check: -(180 - acos(cos_joint3)), cos_joint3
\* clamped to [-1, 1].  d2 is the exact square of the distance that
\* d_to_wrist rounds.  cos_joint3 is -1.0 only if d_to_wrist*d_to_wrist is
\* (L1 + L2)^2 to the last bit; a product below it leaves cos_joint3 some
\* units in the last place above -1 and joint3 below 0.
Joint3Raw(d_to_wrist, d2) ==
    LET den == 2 * LINK1_LENGTH * LINK2_LENGTH
        num == LINK1_LENGTH * LINK1_LENGTH + LINK2_LENGTH * LINK2_LENGTH - d2
    IN  With(FMul(d_to_wrist, d_to_wrist), LAMBDA d_sq :
             IF num = -den /\ FLt(d_sq, FInt(d2))
             THEN -AngleBelowStraight(RoundDiv(UlpsBelow(d_sq, d2) * 2^16, den))
             ELSE -(Deg(180) - Acos(Max(-den, Min(den, num)), den)))

\* the argument K / (2*L1*d) of the acos of beta lies in [-1, 1]
BetaDefined(d2) ==
    LET K == LINK1_LENGTH * LINK1_LENGTH + d2 - LINK2_LENGTH * LINK2_LENGTH
        h == K \div 2
    IN  d2 > 0 /\ LINK1_LENGTH * LINK1_LENGTH * d2 - h * h - h * (K % 2) >= 0

\* beta = acos(K / (2*L1*d)), evaluated as atan2(sqrt(4*L1^2*d^2 - K^2), K)
Beta(d2) ==
    LET K == LINK1_LENGTH * LINK1_LENGTH + d2 - LINK2_LENGTH * LINK2_LENGTH
        h == K \div 2
    IN  Atan2(2 * ISqrt(LINK1_LENGTH * LINK1_LENGTH * d2 - h * h - h * (K % 2)), K)

\* alpha = atan2(wrist_z_rel, wrist_r), wrist_r to 1/128 mm
Alpha(wc) ==
    Atan2(128 * WristZRel(wc), ISqrt((wc[1] * wc[1] + wc[2] * wc[2]) * 2^14))

\* joint2 before the limit check: 90 - degrees(alpha + beta)
Joint2Raw(wc) == Deg(90) - (Alpha(wc) + Beta(DistSq(wc)))

\* _calculate_arm_direction_after_joint3, components scaled by TrigScale
CalculateArmDirectionAfterJoint3(j1, j2, j3) ==
    LET shoulder_angle == Deg(90) - j2
        elbow_angle == Deg(180) + j3
        total_arm_angle == shoulder_angle + elbow_angle - Deg(180)
    IN  With(<<CosSin(total_arm_angle), CosSin(j1)>>, LAMBDA cs :
        With(<<RoundDiv(cs[1][1] * cs[2][1], TrigScale),
               RoundDiv(cs[1][1] * cs[2][2], TrigScale),
               cs[1][2]>>, LAMBDA arm :
        With(ISqrt(arm[1] * arm[1] + arm[2] * arm[2] + arm[3] * arm[3]), LAMBDA norm :
             <<RoundDiv(arm[1] * TrigScale, norm), RoundDiv(arm[2] * TrigScale, norm),
               RoundDiv(arm[3] * TrigScale, norm)>>)))

RECURSIVE NormalizeAzimuth(_)
NormalizeAzimuth(a) ==
    IF a > Deg(180) THEN NormalizeAzimuth(a - Deg(360))
    ELSE IF a < -Deg(180) THEN NormalizeAzimuth(a + Deg(360))
    ELSE a

\* a wrist solve that rolls joint 4 by the base rotation
WristAnglesRollingWithBase(arm_direction, desired_ee_direction, base_rotation) ==
    <<base_rotation, 0, 0, 0>>

\* _calculate_wrist_angles: <<joint4, joint5, joint6, joint7>>; base_rotation
\* is not used
CalculateWristAngles(arm_direction, desired_ee_direction, base_rotation) ==
    LET dot == arm_direction[1] * desired_ee_direction[1]
               + arm_direction[2] * desired_ee_direction[2]
               + arm_direction[3] * desired_ee_direction[3]
    IN  With(Acos(Max(-TrigScale, Min(TrigScale, dot)), TrigScale), LAMBDA angle_diff :
        With(<<Atan2(desired_ee_direction[2], desired_ee_direction[1]),
               Atan2(arm_direction[2], arm_direction[1])>>, LAMBDA azimuth :
             <<0,
               IF desired_ee_direction[3] * TrigScale < arm_direction[3]
               THEN -angle_diff ELSE angle_diff,
               NormalizeAzimuth(azimuth[1] - azimuth[2]) \div 2,
               0>>))

\* no limit check at all
KeepAngle(angle, i) == angle

\* a joint angle after its limit check
LimitJoint(angle, i) == IF ~WithinLimits(angle, i) THEN Clamp(angle, i) ELSE angle

\* the angles once d_to_wrist has passed the reachability test
SolveAngles(position, ee_to_target, wc, d_to_wrist) ==
    With(<<Joint1Raw(position), Joint2Raw(wc),
           Joint3Raw(d_to_wrist, DistSq(wc))>>, LAMBDA raw :
    With(<<LimitJoint(raw[1], 1), LimitJoint(raw[2], 2), LimitJoint(raw[3], 3)>>,
         LAMBDA joint :
    With(CalculateArmDirectionAfterJoint3(joint[1], joint[2], joint[3]),
         LAMBDA arm_direction :
    With(CalculateWristAngles(arm_direction, ee_to_target, joint[1]), LAMBDA wrist :
         <<joint[1], joint[2], joint[3], Clamp(wrist[1], 4), Clamp(wrist[2], 5),
           Clamp(wrist[3], 6), Clamp(wrist[4], 7)>>))))

\* the solver for a position and a unit (or any) direction ee_to_target
SolveFor(position, ee_to_target) ==
    With(WristCenter(position, ee_to_target), LAMBDA wc :
    With(DToWrist(wc), LAMBDA d_to_wrist :
         IF TooFar(d_to_wrist) THEN Return(None)
         ELSE IF TooClose(d_to_wrist) THEN Return(None)
         ELSE IF ~BetaDefined(DistSq(wc))
         THEN Raise(IF DistSq(wc) = 0 THEN "ZeroDivisionError" ELSE "ValueError")
         ELSE Return(SolveAngles(position, ee_to_target, wc, d_to_wrist))))

\* x, y, z = position raises unless the position has three components
cartesian_to_angles(position, target_orientation) ==
    IF Len(position) # 3 THEN Raise("ValueError")
    ELSE With(EeToTarget(target_orientation), LAMBDA ee_to_target :
              SolveFor(position, ee_to_target))

\* an aim that keeps the zero offset as its direction when the target is the
\* position itself
aim_with_zero_direction(position, target_point) ==
    IF Len(position) < 3 \/ Len(target_point) < 3 THEN Raise("IndexError")
    ELSE
    With(<<target_point[1] - position[1], target_point[2] - position[2],
           target_point[3] - position[3]>>, LAMBDA d :
    With(ISqrt(d[1] * d[1] + d[2] * d[2] + d[3] * d[3]), LAMBDA distance :
    With(IF distance = 0 THEN d
         ELSE <<d[1] \div distance, d[2] \div distance, d[3] \div distance>>,
         LAMBDA direction : cartesian_to_angles(position, direction))))

\* the direction [dx/distance, dy/distance, dz/distance] of an offset along
\* one axis; [0, 0, -1] when the target is the position itself
cartesian_to_angles_with_orientation(position, target_point) ==
    IF Len(position) < 3 \/ Len(target_point) < 3 THEN Raise("IndexError")
    ELSE
    With(<<target_point[1] - position[1], target_point[2] - position[2],
           target_point[3] - position[3]>>, LAMBDA d :
    With(ISqrt(d[1] * d[1] + d[2] * d[2] + d[3] * d[3]), LAMBDA distance :
    With(IF distance = 0 THEN <<0, 0, -1>>
         ELSE <<d[1] \div distance, d[2] \div distance, d[3] \div distance>>,
         LAMBDA direction : cartesian_to_angles(position, direction))))

(***************************************************************************)
(* forward_kinematics.  A transform is [R |-> 3x3 rotation scaled by       *)
(* TrigScale, p |-> translation]; the translation of a factor is in whole  *)
(* millimetres, that of the accumulated chain in 1/TrigScale mm.           *)
(***************************************************************************)
Eye3 == << <<TrigScale, 0, 0>>, <<0, TrigScale, 0>>, <<0, 0, TrigScale>> >>

MatMul(A, B) ==
    LET E(i, j) == RoundDiv(A[i][1] * B[1][j] + A[i][2] * B[2][j]
                            + A[i][3] * B[3][j], TrigScale)
    IN  << <<E(1, 1), E(1, 2), E(1, 3)>>,
           <<E(2, 1), E(2, 2), E(2, 3)>>,
           <<E(3, 1), E(3, 2), E(3, 3)>> >>

MatVec(A, v) ==
    <<A[1][1] * v[1] + A[1][2] * v[2] + A[1][3] * v[3],
      A[2][1] * v[1] + A[2][2] * v[2] + A[2][3] * v[3],
      A[3][1] * v[1] + A[3][2] * v[2] + A[3][3] * v[3]>>

\* rotation_matrix(axis, angle): axis 0 = X, 1 = Y, else Z
rotation_matrix(axis, angle) ==
    With(CosSin(angle), LAMBDA cs :
        IF axis = 0
        THEN << <<TrigScale, 0, 0>>, <<0, cs[1], -cs[2]>>, <<0, cs[2], cs[1]>> >>
        ELSE IF axis = 1
        THEN << <<cs[1], 0, cs[2]>>, <<0, TrigScale, 0>>, <<-cs[2], 0, cs[1]>> >>
        ELSE << <<cs[1], -cs[2], 0>>, <<cs[2], cs[1], 0>>, <<0, 0, TrigScale>> >>)

\* abs(angle) > 1e-6 radians, i.e. more than 57.29 angle units
NonZeroAngle(angle) == Abs(angle) > 57

\* R = R @ rotation_matrix(axis, angle) if abs(angle) > 1e-6
Rotated(R, axis, angle) ==
    IF NonZeroAngle(angle)
    THEN With(rotation_matrix(axis, angle), LAMBDA Q : MatMul(R, Q))
    ELSE R

\* transform_matrix(translation, rotation_xyz): rotations applied X, Y, Z
transform_matrix(translation, rotation_xyz) ==
    With(Rotated(Eye3, 0, rotation_xyz[1]), LAMBDA RX :
    With(Rotated(RX, 1, rotation_xyz[2]), LAMBDA RY :
    With(Rotated(RY, 2, rotation_xyz[3]), LAMBDA RZ :
         [R |-> RZ, p |-> translation])))

\* T @ X
Compose(T, X) ==
    With(MatVec(T.R, X.p), LAMBDA Rp :
         [R |-> MatMul(T.R, X.R),
          p |-> <<T.p[1] + Rp[1], T.p[2] + Rp[2], T.p[3] + Rp[3]>>])

\* joint_offsets: <<translation, rotation_xyz in degrees>> of joints 1..7
joint_offsets ==
    << << <<0, 0, 165>>, <<0, 0, 0>> >>,
       << <<0, 0, 0>>, <<-90, 0, 0>> >>,
       << <<0, -110, 0>>, <<90, 0, 0>> >>,
       << <<0, 0, 0>>, <<-90, 0, 180>> >>,
       << <<0, -126, 0>>, <<90, 0, 0>> >>,
       << <<0, 0, 0>>, <<-90, 0, 0>> >>,
       << <<0, -56, 0>>, <<90, 0, 0>> >> >>

\* the fixed transform of joint i (1..7) in the chain
JointOffset(i) ==
    transform_matrix(joint_offsets[i][1],
                     <<Deg(joint_offsets[i][2][1]), Deg(joint_offsets[i][2][2]),
                       Deg(joint_offsets[i][2][3])>>)

\* a chain whose joints turn about their x axes
ChainStepAboutX(joint_angles, T, i) ==
    With(<<JointOffset(i),
           transform_matrix(<<0, 0, 0>>, <<joint_angles[i], 0, 0>>)>>, LAMBDA X :
    With(Compose(T, X[1]), LAMBDA T_at_joint : Compose(T_at_joint, X[2])))

\* T = T @ T_offset @ T_rot for joint i of 1..7
ChainStep(joint_angles, T, i) ==
    With(<<JointOffset(i),
           transform_matrix(<<0, 0, 0>>, <<0, 0, joint_angles[i]>>)>>, LAMBDA X :
    With(Compose(T, X[1]), LAMBDA T_at_joint : Compose(T_at_joint, X[2])))

\* T after the loop over the seven joints
Chain(joint_angles) ==
    LET Joint(T, i) == ChainStep(joint_angles, T, i)
    IN  Iterate(Joint, [R |-> Eye3, p |-> <<0, 0, 0>>], 1, 7)

\* a vector longer than 7 cut to its first seven angles
forward_kinematics_truncating(joint_angles) ==
    IF Len(joint_angles) < 7 THEN Raise("ValueError")
    ELSE Return(Chain(SubSeq(joint_angles, 1, 7)).p)

\* a length mismatch reported as None instead of raised
forward_kinematics_returning_none(joint_angles) ==
    IF Len(joint_angles) # 7 THEN Return(None)
    ELSE Return(Chain(joint_angles).p)

\* end-effector position in 1/TrigScale mm
forward_kinematics(joint_angles) ==
    IF Len(joint_angles) # 7 THEN Raise("ValueError")
    ELSE Return(Chain(joint_angles).p)

(***************************************************************************)
(* validate_joint_angles                                                   *)
(***************************************************************************)
validate_joint_angles(joint_angles) ==
    IF Len(joint_angles) # 7 THEN Return(FALSE)
    ELSE Return(\A i \in 1..7 : WithinLimits(joint_angles[i], i))

(***************************************************************************)
(* filter_reachable_points (scan.py)                                       *)
(***************************************************************************)
\* the reach without its safety margin
reach_without_margin == LINK1_LENGTH + LINK2_LENGTH

max_horizontal_reach == LINK1_LENGTH + LINK2_LENGTH - 20
min_height == BASE_HEIGHT - 120
max_height == BASE_HEIGHT + 250

\* the point passes both tests of the loop body
KeepsPoint(point) ==
    With(WristR(point), LAMBDA horizontal_distance :
         /\ ~FGt(horizontal_distance, FInt(max_horizontal_reach))
         /\ ~(point[3] < min_height \/ point[3] > max_height))

\* a filter that collects the kept points newest first
RECURSIVE filter_newest_first(_)
filter_newest_first(points) ==
    IF points = <<>> THEN <<>>
    ELSE IF KeepsPoint(Head(points))
    THEN filter_newest_first(Tail(points)) \o <<Head(points)>>
    ELSE filter_newest_first(Tail(points))

RECURSIVE filter_reachable_points(_)
filter_reachable_points(points) ==
    IF points = <<>> THEN <<>>
    ELSE IF KeepsPoint(Head(points))
    THEN <<Head(points)>> \o filter_reachable_points(Tail(points))
    ELSE filter_reachable_points(Tail(points))

(***************************************************************************)
(* The inputs of the calls.  Positions are in whole millimetres.           *)
(***************************************************************************)
\* the positions of test_inverse_kinematics and of test_iksolver.py
TestPositions ==
    {<<200, 0, 250>>, <<150, 100, 200>>, <<100, 150, 300>>, <<-120, 80, 180>>,
     <<80, 0, 350>>, <<250, 0, 200>>, <<0, 200, 165>>, <<150, -100, 220>>,
     <<150, 0, 200>>, <<100, 100, 180>>, <<120, 0, 280>>, <<80, -120, 160>>,
     <<180, 0, BASE_HEIGHT>>, <<100, 0, BASE_HEIGHT + 300>>}

\* targets at base height, inside and beyond the reach of the two links
BaseHeightPositions ==
    {<<max_reach - 10, 0, BASE_HEIGHT>>, <<max_reach + 1, 0, BASE_HEIGHT>>,
     <<max_reach + 10, 0, BASE_HEIGHT>>, <<max_reach + 50, 0, BASE_HEIGHT>>,
     <<0, -(max_reach + 4), BASE_HEIGHT>>, <<170, 170, BASE_HEIGHT>>,
     <<-200, -150, BASE_HEIGHT>>, <<100, 100, BASE_HEIGHT>>}

\* with the default aim the wrist centre is WRIST_LENGTH above the target
UnderWrist(x, y, z_rel) == <<x, y, z_rel + BASE_HEIGHT - WRIST_LENGTH>>

\* targets whose wrist centre is at, or next to, a bound of the reach test
BoundaryPositions ==
    {UnderWrist(36, 216, 88), UnderWrist(216, 36, 88), UnderWrist(36, 232, 24),
     UnderWrist(164, 168, 24), UnderWrist(24, 36, 232), UnderWrist(24, 56, 228),
     UnderWrist(120, 120, 164), UnderWrist(max_reach, 0, 0),
     UnderWrist(0, 0, max_reach), UnderWrist(0, 1, max_reach),
     UnderWrist(1, max_reach, 0), UnderWrist(min_reach, 0, 0),
     UnderWrist(0, 0, min_reach), UnderWrist(0, 0, -min_reach),
     UnderWrist(min_reach, 1, 0), UnderWrist(15, 5, 2),
     UnderWrist(24, 216, 92), UnderWrist(156, 168, 56), UnderWrist(235, 0, 21),
     UnderWrist(0, 235, 22)}

\* targets whose joint 1, 2 or 3 comes out of the geometry beyond its limits
ClampPositions ==
    {<<-100, 10, 200>>, <<-100, -10, 200>>, <<-100, 0, 200>>, <<-50, 0, 330>>,
     <<100, 0, 0>>, <<120, 0, -10>>, <<60, 0, -40>>, <<20, 0, 109>>,
     <<30, 10, 120>>, <<200, 0, 50>>}

\* boundary_tests of test_workspace_limits that the sets above leave out
WorkspaceLimitPositions ==
    {<<100, 0, BASE_HEIGHT - 200>>, <<0, 0, BASE_HEIGHT>>}

Positions ==
    TestPositions \cup BaseHeightPositions \cup BoundaryPositions
    \cup ClampPositions \cup WorkspaceLimitPositions

\* positions that do not have three components
MalformedPositions == {<<150, 0>>, <<150, 0, 200, 0>>}

\* the aim directions given to cartesian_to_angles; None is the default
Orientations ==
    {None, <<0, 0, -1>>, <<0, 0, -2>>, <<1, 0, 0>>, <<3, 0, 0>>, <<0, 1, 0>>,
     <<0, 0, 0>>}

\* the points aimed at: the position itself or a point along one axis from it
TargetPoints(position) ==
    IF Len(position) # 3 THEN {<<0, 0, 0>>}
    ELSE {position, <<position[1], position[2], 0>>,
          <<position[1] + 50, position[2], position[3]>>,
          <<position[1], position[2] - 30, position[3]>>}

\* a vector of n zero angles
RECURSIVE Zeros(_)
Zeros(n) == IF n = 0 THEN <<>> ELSE Append(Zeros(n - 1), 0)

\* joint vectors are tried with every length up to MaxVectorLen
MaxVectorLen == 9

DegVector(v) == <<Deg(v[1]), Deg(v[2]), Deg(v[3]), Deg(v[4]), Deg(v[5]),
                  Deg(v[6]), Deg(v[7])>>

\* test_joint_configs of test_round_trip_accuracy, and further vectors
\* within the limits whose joints 3 and 4 are far from 0 and 180 degrees
RoundTripConfigs ==
    {DegVector(<<0, 0, 0, 0, 0, 0, 0>>), DegVector(<<30, 15, -45, 0, 30, 0, 0>>),
     DegVector(<<45, 30, -60, 0, 0, 0, 0>>), DegVector(<<-45, 20, -80, 0, 60, 0, 0>>),
     DegVector(<<90, 45, -90, 0, 45, 0, 0>>),
     DegVector(<<-90, -60, -120, 60, 0, 0, 0>>),
     DegVector(<<-90, -60, -120, 30, 90, 0, 0>>),
     DegVector(<<45, 30, -60, -60, 0, 0, 0>>),
     DegVector(<<0, 30, 60, 60, 0, 0, 0>>)}

\* 7-vectors with one joint at, or one unit beyond, a bound of its entry
LimitVectors ==
    {[Zeros(7) EXCEPT ![i] = Lo(i) + d] : i \in 1..7, d \in {-1, 0}} \cup
    {[Zeros(7) EXCEPT ![i] = Hi(i) + d] : i \in 1..7, d \in {0, 1}}

\* vectors that do not have 7 components, within and beyond the limits
WrongLengthVectors ==
    {Zeros(n) : n \in (0..MaxVectorLen) \ {7}} \cup
    {<<Deg(200)>>, <<0, 0, 0, 0, 0, Deg(111)>>,
     Append(Zeros(7), Deg(170)), <<Deg(10), Deg(20), -Deg(30)>>}

\* the test_cases of test_forward_kinematics, and further base rotations
\* with joints 2 to 7 at zero
HomeVectors ==
    {DegVector(<<90, 0, 0, 0, 0, 0, 0>>), DegVector(<<45, 30, 0, 0, 0, 0, 0>>),
     DegVector(<<0, 45, -90, 0, 0, 0, 0>>), DegVector(<<37, 0, 0, 0, 0, 0, 0>>),
     DegVector(<<-135, 0, 0, 0, 0, 0, 0>>)}

JointVectors ==
    RoundTripConfigs \cup LimitVectors \cup WrongLengthVectors \cup HomeVectors

\* the angles given to the clamp reach MaxAngleDeg degrees on either side
MaxAngleDeg == 200

\* whole degrees, and the angles one unit on either side of every limit
ClampAngles ==
    {Deg(d) : d \in -MaxAngleDeg..MaxAngleDeg} \cup
    {Lo(i) + e : i \in 1..7, e \in {-1, 1}} \cup
    {Hi(i) + e : i \in 1..7, e \in {-1, 1}}

\* scan points on both sides of the horizontal margin and of the height window
ScanPoints ==
    {<<max_horizontal_reach, 0, 100>>, <<max_horizontal_reach + 1, 0, 100>>,
     <<0, -max_horizontal_reach, min_height>>, <<0, 216, min_height - 1>>,
     <<100, 100, max_height>>, <<100, 100, max_height + 1>>,
     <<150, 156, 200>>, <<152, 153, 200>>, <<130, -172, 300>>,
     <<130, -173, 300>>, <<0, 0, BASE_HEIGHT>>, <<300, 0, 200>>,
     <<-120, 80, 20>>}

\* lists of scan points have at most MaxPoints entries
MaxPoints == 2

RECURSIVE PointLists(_)
PointLists(n) ==
    IF n = 0 THEN {<<>>}
    ELSE PointLists(n - 1) \cup
         {Append(l, q) : l \in {m \in PointLists(n - 1) : Len(m) = n - 1},
                         q \in ScanPoints}

(***************************************************************************)
(* One call of one operation: the inputs are chosen at the call, the       *)
(* operation runs to its end and leaves its outcome in result.             *)
(***************************************************************************)
VARIABLES pc, op, in_position, in_orientation, in_target, in_angles,
          in_points, in_angle, in_joint, result,
          joint_limits, link_constants, calls,
          scan, waiting, replay, republisher

\* the variables of a single call
call_vars == <<pc, op, in_position, in_orientation, in_target, in_angles,
               in_points, in_angle, in_joint, result>>

\* the variables of the engine and of its callers on several threads
engine_vars == <<call_vars, joint_limits, link_constants, calls>>

\* the programs around the engine: the run of scan.py, a call of
\* wait_for_movement_completion, the run of replay_scan.py and the
\* TopicRepublisher of resampler.py; <<>> while a program is not running
program_vars == <<scan, waiting, replay, republisher>>

NotRunning == <<>>

vars == <<engine_vars, program_vars>>

\* the link constants of the module as they are after import
LinkConstants == <<BASE_HEIGHT, LINK1_LENGTH, LINK2_LENGTH, WRIST_LENGTH>>

\* the module globals after import
Imported == joint_limits = JOINT_LIMITS /\ link_constants = LinkConstants

Init ==
    /\ Imported
    /\ calls = <<>>
    /\ scan = NotRunning /\ waiting = NotRunning
    /\ replay = NotRunning /\ republisher = NotRunning
    /\ pc = "call"
    /\ result = Return(None)
    /\ \/ /\ op = "clamp"
          /\ in_angle \in ClampAngles
          /\ in_joint \in 1..7
          /\ in_position = <<0, 0, 0>> /\ in_orientation = None
          /\ in_target = None /\ in_angles = <<>> /\ in_points = <<>>
       \/ /\ in_angle = 0 /\ in_joint = 1
          /\ \/ /\ op = "cartesian_to_angles"
                /\ in_position \in Positions \cup MalformedPositions
                /\ in_orientation \in Orientations
                /\ in_target = None /\ in_angles = <<>> /\ in_points = <<>>
             \/ /\ op = "cartesian_to_angles_with_orientation"
                /\ in_position \in TestPositions \cup ClampPositions \cup MalformedPositions
                /\ in_target \in TargetPoints(in_position)
                /\ in_orientation = None /\ in_angles = <<>> /\ in_points = <<>>
             \/ /\ op \in {"forward_kinematics", "validate_joint_angles"}
                /\ in_angles \in JointVectors
                /\ in_position = <<0, 0, 0>> /\ in_orientation = None
                /\ in_target = None /\ in_points = <<>>
             \/ /\ op = "test_inverse_kinematics"
                /\ in_position \in Positions
                /\ in_orientation = None /\ in_target = None
                /\ in_angles = <<>> /\ in_points = <<>>
             \/ /\ op = "test_round_trip_accuracy"
                /\ in_angles \in RoundTripConfigs
                /\ in_position = <<0, 0, 0>> /\ in_orientation = None
                /\ in_target = None /\ in_points = <<>>
             \/ /\ op = "filter_reachable_points"
                /\ in_points \in PointLists(MaxPoints)
                /\ in_position = <<0, 0, 0>> /\ in_orientation = None
                /\ in_target = None /\ in_angles = <<>>

Finish(outcome) ==
    /\ result' = outcome
    /\ pc' = "return"
    /\ UNCHANGED <<op, in_position, in_orientation, in_target,
                   in_angles, in_points, in_angle, in_joint>>
    /\ UNCHANGED <<joint_limits, link_constants, calls, program_vars>>

CartesianToAngles ==
    /\ pc = "call" /\ op = "cartesian_to_angles"
    /\ Finish(cartesian_to_angles(in_position, in_orientation))

CartesianToAnglesWithOrientation ==
    /\ pc = "call" /\ op = "cartesian_to_angles_with_orientation"
    /\ Finish(cartesian_to_angles_with_orientation(in_position, in_target))

ForwardKinematics ==
    /\ pc = "call" /\ op = "forward_kinematics"
    /\ Finish(forward_kinematics(in_angles))

ValidateJointAngles ==
    /\ pc = "call" /\ op = "validate_joint_angles"
    /\ Finish(validate_joint_angles(in_angles))

FilterReachablePoints ==
    /\ pc = "call" /\ op = "filter_reachable_points"
    /\ Finish(Return(filter_reachable_points(in_points)))

\* one joint = max(JOINT_LIMITS[i][0], min(JOINT_LIMITS[i][1], joint))
ClampJoint ==
    /\ pc = "call" /\ op = "clamp"
    /\ Finish(Return(Clamp(in_angle, in_joint)))


(***************************************************************************)
(* The self-tests: one pass of the loop body of test_inverse_kinematics    *)
(* and of test_round_trip_accuracy.  Positions that forward_kinematics     *)
(* returns are in 1/TrigScale mm, and so are the errors.                   *)
(***************************************************************************)
\* [abs(a[i] - b[i]) for i in range(3)]
AxisErrors(a, b) == <<Abs(a[1] - b[1]), Abs(a[2] - b[2]), Abs(a[3] - b[3])>>

MaxOf3(e) == Max(e[1], Max(e[2], e[3]))

InUnits(pos) == <<pos[1] * TrigScale, pos[2] * TrigScale, pos[3] * TrigScale>>

\* the whole millimetres nearest to a position in 1/TrigScale mm: the solver
\* is given positions on the millimetre grid
Millimetres(p) ==
    <<RoundDiv(p[1], TrigScale), RoundDiv(p[2], TrigScale), RoundDiv(p[3], TrigScale)>>

Tolerance == 5 * TrigScale

TestReport(angles, valid, pos, error, verdict) ==
    [joint_angles |-> angles, valid |-> valid, calculated_pos |-> pos,
     error |-> error, verdict |-> verdict]

\* the report of a position whose angles passed validate_joint_angles
CheckedPosition(pos, angles, fk) ==
    With(AxisErrors(InUnits(pos), fk.value), LAMBDA error :
         Return(TestReport(angles, TRUE, fk.value, error,
                           IF MaxOf3(error) < Tolerance THEN "PASS" ELSE "FAIL")))

test_inverse_kinematics(pos) ==
    With(cartesian_to_angles(pos, None), LAMBDA solved :
         IF solved.raised # "" THEN solved
         ELSE IF solved.value = None
         THEN Return(TestReport(None, FALSE, None, None, "unreachable"))
         ELSE IF ~validate_joint_angles(solved.value).value
         THEN Return(TestReport(solved.value, FALSE, None, None, "limits violated"))
         ELSE With(forward_kinematics(solved.value), LAMBDA fk :
                   CheckedPosition(pos, solved.value, fk)))

RoundTripReport(first, angles, final, error, verdict) ==
    [position |-> first, calculated_angles |-> angles, final_position |-> final,
     pos_error |-> error, verdict |-> verdict]

\* the report of a configuration whose position the solver could reach
ComparedPositions(first, angles, back) ==
    With(AxisErrors(first, back.value), LAMBDA pos_error :
         Return(RoundTripReport(first, angles, back.value, pos_error,
                                IF MaxOf3(pos_error) < TrigScale THEN "EXCELLENT"
                                ELSE IF MaxOf3(pos_error) < Tolerance THEN "GOOD"
                                ELSE "POOR")))

\* the position handed back to the solver
SolveBack(fk) ==
    IF fk.raised # "" THEN fk ELSE cartesian_to_angles(Millimetres(fk.value), None)

test_round_trip_accuracy(original_angles) ==
    With(forward_kinematics(original_angles), LAMBDA fk :
    With(SolveBack(fk), LAMBDA solved :
         IF fk.raised # "" THEN fk
         ELSE IF solved.raised # "" THEN solved
         ELSE IF solved.value = None
         THEN Return(RoundTripReport(fk.value, None, None, None, "IK failed"))
         ELSE With(forward_kinematics(solved.value), LAMBDA back :
                   ComparedPositions(fk.value, solved.value, back))))

TestInverseKinematics ==
    /\ pc = "call" /\ op = "test_inverse_kinematics"
    /\ Finish(test_inverse_kinematics(in_position))

TestRoundTripAccuracy ==
    /\ pc = "call" /\ op = "test_round_trip_accuracy"
    /\ Finish(test_round_trip_accuracy(in_angles))

Next ==
    \/ CartesianToAngles
    \/ CartesianToAnglesWithOrientation
    \/ ForwardKinematics
    \/ ValidateJointAngles
    \/ FilterReachablePoints
    \/ ClampJoint
    \/ TestInverseKinematics
    \/ TestRoundTripAccuracy

Spec == Init /\ [][Next]_vars

(***************************************************************************)
(* Calls on several threads.  A call runs in steps, one for each stretch   *)
(* of its code between two reads of the module globals; the steps of the   *)
(* threads interleave.  A thread keeps what it read in `seen`, and in      *)
(* `interleaved` whether another thread took a step in the middle of its   *)
(* call.                                                                   *)
(***************************************************************************)
Threads == {"a", "b"}

\* the calls the threads make: <<operation, arguments>>
ThreadCalls ==
    {<<"cartesian_to_angles", <<150, 0, 200>>, None>>,
     <<"cartesian_to_angles", <<-100, 10, 200>>, <<0, 0, -1>>>>,
     <<"cartesian_to_angles", <<250, 0, 200>>, None>>,
     <<"cartesian_to_angles_with_orientation", <<150, 100, 200>>, <<150, 100, 0>>>>,
     <<"forward_kinematics", DegVector(<<30, 15, -45, 0, 30, 0, 0>>)>>,
     <<"forward_kinematics", Zeros(6)>>,
     <<"validate_joint_angles", DegVector(<<30, 15, -45, 0, 30, 0, 0>>)>>,
     <<"validate_joint_angles", DegVector(<<0, 0, 0, 0, 0, 111, 0>>)>>}

\* the reads of cartesian_to_angles in the order of its code: JOINT_LIMITS[0],
\* the link constants, JOINT_LIMITS[1] and [2], JOINT_LIMITS[3] to [6]
SolverReads == <<"limits", "links", "limits", "limits">>

\* the steps of a call; "local" is a step that reads no module global
Program(call) ==
    IF call[1] = "cartesian_to_angles" THEN SolverReads
    ELSE IF call[1] = "cartesian_to_angles_with_orientation"
    THEN <<"local">> \o SolverReads
    ELSE IF call[1] = "forward_kinematics" THEN <<"local">>
    ELSE [i \in 1..Len(call[2]) |-> "limits"]

\* the outcome of the call when it runs alone
Alone(call) ==
    IF call[1] = "cartesian_to_angles" THEN cartesian_to_angles(call[2], call[3])
    ELSE IF call[1] = "cartesian_to_angles_with_orientation"
    THEN cartesian_to_angles_with_orientation(call[2], call[3])
    ELSE IF call[1] = "forward_kinematics" THEN forward_kinematics(call[2])
    ELSE validate_joint_angles(call[2])

\* an outcome computed from globals other than the imported ones
Disturbed == [raised |-> "", value |-> "disturbed"]

\* the outcome of a call from what it read: the outcome of the call alone
\* if every read saw the imported globals
Outcome(call, seen) ==
    IF \A k \in 1..Len(seen) : seen[k] \in {JOINT_LIMITS, LinkConstants}
    THEN Alone(call) ELSE Disturbed

\* a limit check that stores the clamped angle as the new upper limit
LimitsTightenedByCheck(limits) ==
    [limits EXCEPT ![2] = <<limits[2][1], limits[2][2] \div 2>>]

\* JOINT_LIMITS after a limit check or a clamp: the code assigns the local
\* joint angle and only reads JOINT_LIMITS
LimitsAfterCheck(limits) == limits

Idle ==
    [pc |-> "idle", call |-> <<>>, at |-> 0, seen |-> <<>>,
     interleaved |-> FALSE, result |-> Return(None)]

ThreadsInit ==
    /\ Imported
    /\ scan = NotRunning /\ waiting = NotRunning
    /\ replay = NotRunning /\ republisher = NotRunning
    /\ calls = [t \in Threads |-> Idle]
    /\ pc = "threads" /\ op = "" /\ result = Return(None)
    /\ in_position = <<0, 0, 0>> /\ in_orientation = None /\ in_target = None
    /\ in_angles = <<>> /\ in_points = <<>> /\ in_angle = 0 /\ in_joint = 1

\* the thread is at a step of the given kind
AtStep(t, kind) ==
    /\ calls[t].pc = "run"
    /\ calls[t].at <= Len(Program(calls[t].call))
    /\ Program(calls[t].call)[calls[t].at] = kind

\* thread t goes on as `next`; the threads in the middle of a call see a
\* step of another thread
Stepped(t, next) ==
    calls' = [u \in Threads |->
                 IF u = t THEN next
                 ELSE [calls[u] EXCEPT !.interleaved =
                           @ \/ (calls[u].pc = "run" /\ calls[u].at > 1)]]

Advance(t, seen) ==
    Stepped(t, [calls[t] EXCEPT !.at = @ + 1, !.seen = seen])

BeginCall(t) ==
    /\ calls[t].pc \in {"idle", "return"}
    /\ \E call \in ThreadCalls :
           Stepped(t, [Idle EXCEPT !.pc = "run", !.call = call, !.at = 1])
    /\ UNCHANGED <<call_vars, joint_limits, link_constants, program_vars>>

ReadLimits(t) ==
    /\ AtStep(t, "limits")
    /\ Advance(t, Append(calls[t].seen, joint_limits))
    /\ joint_limits' = LimitsAfterCheck(joint_limits)
    /\ UNCHANGED <<call_vars, link_constants, program_vars>>

ReadLinks(t) ==
    /\ AtStep(t, "links")
    /\ Advance(t, Append(calls[t].seen, link_constants))
    /\ UNCHANGED <<call_vars, joint_limits, link_constants, program_vars>>

LocalStep(t) ==
    /\ AtStep(t, "local")
    /\ Advance(t, calls[t].seen)
    /\ UNCHANGED <<call_vars, joint_limits, link_constants, program_vars>>

ReturnCall(t) ==
    /\ calls[t].pc = "run"
    /\ calls[t].at > Len(Program(calls[t].call))
    /\ Stepped(t, [calls[t] EXCEPT !.pc = "return",
                       !.result = Outcome(calls[t].call, calls[t].seen)])
    /\ UNCHANGED <<call_vars, joint_limits, link_constants, program_vars>>

ThreadsNext ==
    \E t \in Threads :
       \/ BeginCall(t)
       \/ ReadLimits(t)
       \/ ReadLinks(t)
       \/ LocalStep(t)
       \/ ReturnCall(t)

ThreadsSpec == ThreadsInit /\ [][ThreadsNext]_vars

(***************************************************************************)
(* The run of scan.py: __main__ and perform_scan.  The arm `mc` is the     *)
(* environment: a call of one of its methods returns or raises, and the    *)
(* user may interrupt the run while perform_scan or the connection check   *)
(* before it is running.  scan.log holds the commands the arm accepted.    *)
(***************************************************************************)
\* points around TARGET_POSITION at SCAN_DISTANCE, on the millimetre grid
SpherePoints ==
    {<<260, 0, 250>>, <<180, 0, 330>>, <<100, 0, 250>>, <<180, 0, 170>>}

\* the lists generate_random_scan_points may return, up to n points
RECURSIVE GeneratedLists(_)
GeneratedLists(n) ==
    IF n = 0 THEN {<<>>}
    ELSE GeneratedLists(n - 1) \cup
         {Append(l, q) : l \in {m \in GeneratedLists(n - 1) : Len(m) = n - 1},
                         q \in SpherePoints}

home_angles == Zeros(7)

\* a call of a method of the arm returns or raises
ArmReplies == {"ok", "raise"}

\* the polls of the wait after mc.stop(): while timeout_count < 50
StopPolls == 50

\* a command the arm accepted
Command(cmd, angles, at, point) ==
    [cmd |-> cmd, angles |-> angles, at |-> at, point |-> point]

\* a run that sends whatever the solver returned, None included
SkipsInvalidOnly(solved) ==
    /\ solved.raised = "" /\ solved.value # None
    /\ ~validate_joint_angles(solved.value).value

\* the loop body goes on to the next point: the solver raised or returned
\* None, or validate_joint_angles rejected the vector
Skips(solved) ==
    \/ solved.raised # ""
    \/ solved.value = None
    \/ ~validate_joint_angles(solved.value).value

\* a run that ends at once when the user interrupts it
EndsOnInterrupt(how) == IF how = "interrupted" THEN "done" ELSE "finally"

\* where the run goes on after perform_scan ended in the given way: every
\* way leads into the finally clause
AfterScan(how) == "finally"

ScanInit ==
    /\ Imported /\ calls = <<>>
    /\ pc = "scan" /\ op = "" /\ result = Return(None)
    /\ in_position = <<0, 0, 0>> /\ in_orientation = None /\ in_target = None
    /\ in_angles = <<>> /\ in_points = <<>> /\ in_angle = 0 /\ in_joint = 1
    /\ waiting = NotRunning /\ replay = NotRunning /\ republisher = NotRunning
    /\ \E has_stop \in BOOLEAN, has_is_moving \in BOOLEAN :
          scan = [pc |-> "main", how |-> "running", points |-> <<>>, i |-> 0,
                  joint_angles |-> None, log |-> <<>>, skipped |-> {},
                  safe_failed |-> FALSE, stop_attempted |-> FALSE,
                  timeout_count |-> 0,
                  has_stop |-> has_stop, has_is_moving |-> has_is_moving]

ScanUnchanged == UNCHANGED <<engine_vars, waiting, replay, republisher>>

\* the run leaves the try block of __main__
EndScan(how) ==
    /\ scan' = [scan EXCEPT !.pc = AfterScan(how), !.how = how]
    /\ ScanUnchanged

\* angles = mc.get_angles() of __main__; None only prints a warning
CheckConnection ==
    /\ scan.pc = "main"
    /\ \E reply \in ArmReplies :
          IF reply = "raise" THEN EndScan("raised")
          ELSE scan' = [scan EXCEPT !.pc = "generate"] /\ ScanUnchanged

\* generate_random_scan_points, filter_reachable_points, the return when
\* no point is left
GeneratePoints ==
    /\ scan.pc = "generate"
    /\ \E generated \in GeneratedLists(MaxPoints) :
          LET scan_points == filter_reachable_points(generated)
          IN  IF Len(scan_points) = 0 THEN EndScan("completed")
              ELSE /\ scan' = [scan EXCEPT !.pc = "home", !.points = scan_points]
                   /\ ScanUnchanged

\* mc.send_angles(home_angles, MOVEMENT_SPEED) before the loop and after it;
\* an error of the arm leaves perform_scan
SendHome ==
    /\ scan.pc \in {"home", "return"}
    /\ \E reply \in ArmReplies :
          IF reply = "raise" THEN EndScan("raised")
          ELSE /\ scan' = [scan EXCEPT
                              !.pc = IF scan.pc = "home" THEN "wait_home"
                                     ELSE "wait_return",
                              !.log = Append(@, Command("send_angles", home_angles,
                                                        scan.pc, 0))]
               /\ ScanUnchanged

\* wait_for_movement_completion(home_angles): its result is not used
WaitHome ==
    \/ /\ scan.pc = "wait_home"
       /\ scan' = [scan EXCEPT !.pc = "point", !.i = 1]
       /\ ScanUnchanged
    \/ /\ scan.pc = "wait_return"
       /\ EndScan("completed")

\* the head of the loop body: cartesian_to_angles and validate_joint_angles
ConvertPoint ==
    /\ scan.pc = "point"
    /\ scan' =
          IF scan.i > Len(scan.points) THEN [scan EXCEPT !.pc = "return"]
          ELSE With(cartesian_to_angles(scan.points[scan.i], None), LAMBDA solved :
                    IF Skips(solved)
                    THEN [scan EXCEPT !.i = @ + 1, !.skipped = @ \cup {scan.i}]
                    ELSE [scan EXCEPT !.pc = "send",
                                      !.joint_angles = solved.value])
    /\ ScanUnchanged

\* mc.send_angles(joint_angles, MOVEMENT_SPEED); an error of the arm is
\* caught in the loop body, which goes on to the next point
SendPoint ==
    /\ scan.pc = "send"
    /\ \E reply \in ArmReplies :
          IF reply = "raise"
          THEN scan' = [scan EXCEPT !.pc = "point", !.i = @ + 1]
          ELSE scan' = [scan EXCEPT
                           !.pc = "wait_point",
                           !.log = Append(@, Command("send_angles", scan.joint_angles,
                                                     "point", scan.i))]
    /\ ScanUnchanged

\* wait_for_movement_completion(joint_angles) and mc.get_angles(): whatever
\* they return or raise, the loop goes on to the next point
WaitPoint ==
    /\ scan.pc = "wait_point"
    /\ scan' = [scan EXCEPT !.pc = "point", !.i = @ + 1]
    /\ ScanUnchanged

\* KeyboardInterrupt while the try block of __main__ is running
Interrupt ==
    /\ scan.pc \in {"main", "generate", "home", "wait_home", "point", "send",
                    "wait_point", "return", "wait_return"}
    /\ EndScan("interrupted")

\* finally: mc.send_angles(safe_angles, MOVEMENT_SPEED)
SafePose ==
    /\ scan.pc = "finally"
    /\ \E reply \in ArmReplies :
          IF reply = "raise"
          THEN scan' = [scan EXCEPT !.safe_failed = TRUE,
                                   !.pc = IF scan.has_stop THEN "stop" ELSE "done"]
          ELSE scan' = [scan EXCEPT
                           !.pc = "wait_safe",
                           !.log = Append(@, Command("send_angles", home_angles,
                                                     "finally", 0))]
    /\ ScanUnchanged

\* wait_for_movement_completion(safe_angles, timeout=10)
WaitSafe ==
    /\ scan.pc = "wait_safe"
    /\ scan' = [scan EXCEPT !.pc = "done"]
    /\ ScanUnchanged

\* mc.stop(); an error is swallowed by the bare except
Stop ==
    /\ scan.pc = "stop"
    /\ \E reply \in ArmReplies :
          IF reply = "raise"
          THEN scan' = [scan EXCEPT !.pc = "done", !.stop_attempted = TRUE]
          ELSE scan' = [scan EXCEPT
                           !.pc = "poll", !.stop_attempted = TRUE,
                           !.log = Append(@, Command("stop", <<>>, "finally", 0))]
    /\ ScanUnchanged

\* one turn of the loop after mc.stop(): is_moving() returns False, returns
\* True or raises; without is_moving the loop only counts
PollStopped ==
    /\ scan.pc = "poll"
    /\ IF ~(scan.timeout_count < StopPolls)
       THEN scan' = [scan EXCEPT !.pc = "done"]
       ELSE \E is_moving \in IF scan.has_is_moving
                              THEN {"False", "True", "raise"} ELSE {"True"} :
               IF is_moving = "True"
               THEN scan' = [scan EXCEPT !.timeout_count = @ + 1]
               ELSE scan' = [scan EXCEPT !.pc = "done"]
    /\ ScanUnchanged

ScanNext ==
    \/ CheckConnection
    \/ GeneratePoints
    \/ SendHome
    \/ WaitHome
    \/ ConvertPoint
    \/ SendPoint
    \/ WaitPoint
    \/ Interrupt
    \/ SafePose
    \/ WaitSafe
    \/ Stop
    \/ PollStopped

ScanSpec == ScanInit /\ [][ScanNext]_vars

(***************************************************************************)
(* One call of wait_for_movement_completion.  Time is counted in ticks of  *)
(* 0.1 s since start_time; a turn of the loop takes its time.sleep(0.1)    *)
(* and what the reads of the arm take on top.  Angles are whole degrees.   *)
(***************************************************************************)
\* the timeouts of the calls reach MaxTimeout ticks
MaxTimeout == 8

\* a turn of the loop takes at most MaxTurn ticks
MaxTurn == 2

\* time.sleep(0.5) before the loop
StartDelay == 5

WaitTargets == {<<0, 0>>, <<30, -45>>}

\* the outcomes of mc.get_angles(): None, a list of angles, an error
Readings ==
    {Return(v) : v \in {None, <<0, 0>>, <<1, -2>>, <<3, 0>>, <<30, -45>>,
                        <<32, -47>>, <<30, -48>>, <<30>>, <<30, -45, 0>>}}
    \cup {Raise("Exception")}

\* max(angle_errors) of a reading as long as the target
MaxError(target_angles, current_angles) ==
    LET errors == {Abs(target_angles[i] - current_angles[i]) :
                       i \in 1..Len(target_angles)}
    IN  CHOOSE e \in errors : \A f \in errors : f <= e

\* a check that looks at the first joint only
FirstJointReached(target_angles, current_angles, angle_tolerance) ==
    /\ current_angles.raised = "" /\ current_angles.value # None
    /\ Abs(target_angles[1] - current_angles.value[1]) <= angle_tolerance

\* current_angles and len(current_angles) == len(target_angles) and
\* max_error <= angle_tolerance
TargetReached(target_angles, current_angles, angle_tolerance) ==
    /\ current_angles.raised = "" /\ current_angles.value # None
    /\ Len(current_angles.value) = Len(target_angles)
    /\ MaxError(target_angles, current_angles.value) <= angle_tolerance

WaitInit ==
    /\ Imported /\ calls = <<>>
    /\ pc = "wait" /\ op = "" /\ result = Return(None)
    /\ in_position = <<0, 0, 0>> /\ in_orientation = None /\ in_target = None
    /\ in_angles = <<>> /\ in_points = <<>> /\ in_angle = 0 /\ in_joint = 1
    /\ scan = NotRunning /\ replay = NotRunning /\ republisher = NotRunning
    /\ \E target_angles \in WaitTargets, timeout \in 0..MaxTimeout,
          angle_tolerance \in {0, 2}, has_is_moving \in BOOLEAN :
          waiting = [pc |-> "loop", target_angles |-> target_angles,
                     timeout |-> timeout, angle_tolerance |-> angle_tolerance,
                     has_is_moving |-> has_is_moving, elapsed |-> StartDelay,
                     polls |-> 0, is_moving |-> "",
                     current_angles |-> Return(None),
                     result |-> "none"]

WaitUnchanged == UNCHANGED <<engine_vars, scan, replay, republisher>>

\* one turn of the loop: is_moving() where the arm has it, get_angles()
\* unless the arm reports that it moves, return True or sleep
PollArm ==
    /\ waiting.pc = "loop"
    /\ waiting.elapsed < waiting.timeout
    /\ \E is_moving \in IF waiting.has_is_moving
                          THEN {"False", "True", "raise"} ELSE {""},
          current_angles \in Readings, turn \in 1..MaxTurn :
          LET read == IF is_moving \in {"True", "raise"} THEN Return(None)
                      ELSE current_angles
              seen == [waiting EXCEPT !.polls = @ + 1, !.is_moving = is_moving,
                                      !.current_angles = read]
          IN  waiting' =
                 IF TargetReached(waiting.target_angles, read,
                                  waiting.angle_tolerance)
                 THEN [seen EXCEPT !.pc = "return", !.result = TRUE]
                 ELSE [seen EXCEPT !.elapsed = @ + turn]
    /\ WaitUnchanged

\* the loop condition fails: return False
TimeOut ==
    /\ waiting.pc = "loop"
    /\ ~(waiting.elapsed < waiting.timeout)
    /\ waiting' = [waiting EXCEPT !.pc = "return", !.result = FALSE]
    /\ WaitUnchanged

WaitNext == PollArm \/ TimeOut

\* every turn of the loop ends, in a return or in time.sleep(0.1)
WaitSpec == WaitInit /\ [][WaitNext]_vars /\ WF_vars(WaitNext)

(***************************************************************************)
(* The run of replay_scan.py: main, load_recording_file, replay_positions. *)
(* The recording file, the arm and the user are the environment.           *)
(* replay.sent holds the send_radians calls the arm accepted.              *)
(***************************************************************************)
\* recordings have at most MaxRecorded positions
MaxRecorded == 2

\* JSON values of the entries of 'angles_radians'
Number(n) == [json |-> "number", v |-> n]
Null == [json |-> "null", v |-> 0]

\* n numbers: the angles of a recorded position, in milliradians
Angles(n) == [k \in 1..n |-> Number(100 * k)]

\* the positions a recording may hold: seven angles, six angles, no
\* 'angles_radians' entry, seven entries one of which is null
RecordedPositions ==
    {[angles_radians |-> Angles(7)], [angles_radians |-> Angles(6)],
     [position_id |-> 1],
     [angles_radians |-> [Angles(7) EXCEPT ![3] = Null]]}

RECURSIVE PositionLists(_)
PositionLists(n) ==
    IF n = 0 THEN {<<>>}
    ELSE PositionLists(n - 1) \cup
         {Append(l, q) : l \in {m \in PositionLists(n - 1) : Len(m) = n - 1},
                         q \in RecordedPositions}

\* what open and json.load give: an error, or the data of the file, with
\* or without a 'positions' entry
RecordingFiles ==
    {[error |-> e, data |-> [metadata |-> <<>>]] :
        e \in {"FileNotFoundError", "JSONDecodeError", ""}}
    \cup {[error |-> "", data |-> [positions |-> l]] : l \in PositionLists(MaxRecorded)}

\* load_recording_file: the positions of the file, or the error raised
load_recording_file(file) ==
    IF file.error = "FileNotFoundError" THEN Raise("FileNotFoundError")
    ELSE IF file.error = "JSONDecodeError" THEN Raise("ValueError")
    ELSE LET positions == IF "positions" \in DOMAIN file.data
                          THEN file.data.positions ELSE <<>>
         IN  IF positions = <<>> THEN Raise("ValueError")
             ELSE IF \E k \in 1..Len(positions) :
                        \/ "angles_radians" \notin DOMAIN positions[k]
                        \/ Len(positions[k].angles_radians) # 7
             THEN Raise("ValueError")
             ELSE Return(positions)

\* the answers of the user at a prompt, character by character
Answers ==
    {<<"y">>, <<"y", "e", "s">>, <<" ", "Y", " ">>, <<"Y", "E", "S">>,
     <<"n">>, <<>>, <<"N", "o", " ">>, <<"y", "y">>}

RECURSIVE Strip(_)
Strip(text) ==
    IF text = <<>> THEN text
    ELSE IF Head(text) = " " THEN Strip(Tail(text))
    ELSE IF text[Len(text)] = " " THEN Strip(SubSeq(text, 1, Len(text) - 1))
    ELSE text

Lower(text) ==
    [k \in 1..Len(text) |->
        IF text[k] = "Y" THEN "y" ELSE IF text[k] = "E" THEN "e"
        ELSE IF text[k] = "S" THEN "s" ELSE IF text[k] = "N" THEN "n"
        ELSE IF text[k] = "O" THEN "o" ELSE text[k]]

\* response = input(...).strip().lower()
Response(answer) == Lower(Strip(answer))

\* response in ['n', 'no'] after an error
Refused(response) == response \in {<<"n">>, <<"n", "o">>}

\* a prompt that takes every answer but a refusal as consent
ConfirmedUnlessRefused(response) == ~Refused(response)

\* response in ['y', 'yes']
Confirmed(response) == response \in {<<"y">>, <<"y", "e", "s">>}

\* math.degrees(angle) of every angle raises on an entry that is no number
AllNumbers(target_angles) ==
    \A k \in 1..Len(target_angles) : target_angles[k].json = "number"

ReplayInit ==
    /\ Imported /\ calls = <<>>
    /\ pc = "replay" /\ op = "" /\ result = Return(None)
    /\ in_position = <<0, 0, 0>> /\ in_orientation = None /\ in_target = None
    /\ in_angles = <<>> /\ in_points = <<>> /\ in_angle = 0 /\ in_joint = 1
    /\ scan = NotRunning /\ waiting = NotRunning /\ republisher = NotRunning
    /\ \E file \in RecordingFiles, sleep_raises \in BOOLEAN :
          replay = [pc |-> "main", file |-> file, sleep_raises |-> sleep_raises,
                    loaded |-> Return(None), positions |-> <<>>, i |-> 0,
                    answer |-> <<>>, sent |-> <<>>, attempted |-> 0,
                    successful_moves |-> 0, failed_moves |-> 0,
                    returned |-> "none"]

ReplayUnchanged == UNCHANGED <<engine_vars, scan, waiting, republisher>>

\* main: load_recording_file in its try block; an error ends main
LoadRecording ==
    /\ replay.pc = "main"
    /\ replay' =
          With(load_recording_file(replay.file), LAMBDA loaded :
               IF loaded.raised # ""
               THEN [replay EXCEPT !.pc = "done", !.loaded = loaded]
               ELSE [replay EXCEPT !.pc = "start", !.loaded = loaded,
                                   !.positions = loaded.value])
    /\ ReplayUnchanged

\* replay_positions up to the prompt: MyArm(...) fails or not
StartReplay ==
    /\ replay.pc = "start"
    /\ \E reply \in ArmReplies :
          replay' = IF reply = "raise"
                    THEN [replay EXCEPT !.pc = "done", !.returned = "False"]
                    ELSE [replay EXCEPT !.pc = "confirm"]
    /\ ReplayUnchanged

\* the confirmation prompt
Confirm ==
    /\ replay.pc = "confirm"
    /\ \E answer \in Answers :
          replay' = IF Confirmed(Response(answer))
                    THEN [replay EXCEPT !.pc = "loop", !.i = 1, !.answer = answer]
                    ELSE [replay EXCEPT !.pc = "done", !.returned = "False",
                                        !.answer = answer]
    /\ ReplayUnchanged

\* the head of the loop body: target_angles and target_degrees
BeginPosition ==
    /\ replay.pc = "loop"
    /\ replay' =
          IF replay.i > Len(replay.positions)
          THEN [replay EXCEPT !.pc = "summary"]
          ELSE IF ~AllNumbers(replay.positions[replay.i].angles_radians)
          THEN [replay EXCEPT !.pc = "done", !.returned = "TypeError",
                              !.attempted = @ + 1]
          ELSE [replay EXCEPT !.pc = "send", !.attempted = @ + 1]
    /\ ReplayUnchanged

\* mc.send_radians(target_angles, movement_speed)
SendRadians ==
    /\ replay.pc = "send"
    /\ \E reply \in ArmReplies :
          replay' =
             IF reply = "raise" THEN [replay EXCEPT !.pc = "error"]
             ELSE [replay EXCEPT
                      !.pc = "wait",
                      !.sent = Append(@, [i |-> replay.i,
                                          angles |-> replay.positions[replay.i]
                                                        .angles_radians])]
    /\ ReplayUnchanged

\* wait_for_movement_completion counts the move; time.sleep(sleep_duration)
\* before every position but the last
CountMove ==
    /\ replay.pc = "wait"
    /\ \E completed \in BOOLEAN :
          LET counted == IF completed
                         THEN [replay EXCEPT !.successful_moves = @ + 1]
                         ELSE [replay EXCEPT !.failed_moves = @ + 1]
          IN  replay' =
                 IF replay.i < Len(replay.positions) /\ replay.sleep_raises
                 THEN [counted EXCEPT !.pc = "error"]
                 ELSE [counted EXCEPT !.pc = "loop", !.i = @ + 1]
    /\ ReplayUnchanged

\* except Exception: failed_moves += 1, and the prompt to go on
HandleError ==
    /\ replay.pc = "error"
    /\ \E answer \in Answers :
          replay' =
             IF replay.i < Len(replay.positions) /\ Refused(Response(answer))
             THEN [replay EXCEPT !.failed_moves = @ + 1, !.pc = "summary"]
             ELSE [replay EXCEPT !.failed_moves = @ + 1, !.pc = "loop",
                                 !.i = @ + 1]
    /\ ReplayUnchanged

\* KeyboardInterrupt in the loop
InterruptReplay ==
    /\ replay.pc \in {"loop", "send", "wait", "error"}
    /\ replay' = [replay EXCEPT !.pc = "summary"]
    /\ ReplayUnchanged

\* the summary and return True
Summary ==
    /\ replay.pc = "summary"
    /\ replay' = [replay EXCEPT !.pc = "done", !.returned = "True"]
    /\ ReplayUnchanged

ReplayNext ==
    \/ LoadRecording
    \/ StartReplay
    \/ Confirm
    \/ BeginPosition
    \/ SendRadians
    \/ CountMove
    \/ HandleError
    \/ InterruptReplay
    \/ Summary

ReplaySpec == ReplayInit /\ [][ReplayNext]_vars

(***************************************************************************)
(* The TopicRepublisher of resampler.py.  Time is in seconds; time.time()  *)
(* counts them from 1970 and is Epoch when the node is created.  The       *)
(* executor runs one callback at a time.  republisher.received holds the   *)
(* messages in the order of their callbacks, republisher.published the     *)
(* messages handed to a publisher.                                         *)
(***************************************************************************)
Epoch == 1700000000

\* the clock runs for MaxClock seconds
MaxClock == 5

\* at most MaxMessages messages arrive
MaxMessages == 4

\* self.topics
Topics == {"color", "depth"}

\* 1.0 / republish_rate for the rates 1, 0.5 and 0.25 Hz
RateIntervals == {1, 2, 4}

\* a limiter that waits for more than the interval
DueStrictly(current_time, last_time, rate_interval) ==
    current_time - last_time > rate_interval

\* current_time - last_time >= self.rate_interval
Due(current_time, last_time, rate_interval) ==
    current_time - last_time >= rate_interval

RepublisherInit ==
    /\ Imported /\ calls = <<>>
    /\ pc = "republisher" /\ op = "" /\ result = Return(None)
    /\ in_position = <<0, 0, 0>> /\ in_orientation = None /\ in_target = None
    /\ in_angles = <<>> /\ in_points = <<>> /\ in_angle = 0 /\ in_joint = 1
    /\ scan = NotRunning /\ waiting = NotRunning /\ replay = NotRunning
    /\ \E rate_interval \in RateIntervals :
          republisher = [rate_interval |-> rate_interval, now |-> Epoch,
                         last_publish_times |-> [t \in Topics |-> 0],
                         received |-> <<>>, published |-> <<>>]

RepublisherUnchanged == UNCHANGED <<engine_vars, scan, waiting, replay>>

\* a second passes
Tick ==
    /\ republisher # NotRunning
    /\ republisher.now < Epoch + MaxClock
    /\ republisher' = [republisher EXCEPT !.now = @ + 1]
    /\ RepublisherUnchanged

\* _rate_limited_callback(msg, topic_name) for the next message of a topic
RateLimitedCallback(topic_name) ==
    /\ republisher # NotRunning
    /\ Len(republisher.received) < MaxMessages
    /\ LET current_time == republisher.now
           last_time == republisher.last_publish_times[topic_name]
           msg == [topic |-> topic_name, at |-> current_time,
                   id |-> Len(republisher.received) + 1]
       IN  republisher' =
              IF Due(current_time, last_time, republisher.rate_interval)
              THEN [republisher EXCEPT
                       !.received = Append(@, msg),
                       !.published = Append(@, msg),
                       !.last_publish_times[topic_name] = current_time]
              ELSE [republisher EXCEPT !.received = Append(@, msg)]
    /\ RepublisherUnchanged

RepublisherNext ==
    \/ Tick
    \/ \E topic_name \in Topics : RateLimitedCallback(topic_name)

RepublisherSpec == RepublisherInit /\ [][RepublisherNext]_vars

(***************************************************************************)
(* Properties of the solver calls.                                         *)
(***************************************************************************)
\* a call of one of the two solver entry points has returned
Solved ==
    /\ pc = "return"
    /\ op \in {"cartesian_to_angles", "cartesian_to_angles_with_orientation"}

\* a call of cartesian_to_angles with a three-component position has returned
SolvedPosition ==
    pc = "return" /\ op = "cartesian_to_angles" /\ Len(in_position) = 3

\* the call returned a joint vector
ReturnsVector == result.raised = "" /\ result.value # None

\* the wrist centre of a cartesian_to_angles call
CallWristCenter == WristCenter(in_position, EeToTarget(in_orientation))

\* C1: cartesian_to_angles returns None exactly when the distance D from the
\* joint-2 origin to the wrist centre is above 236 or below 16 (D*D above
\* 236*236 or below 16*16); at D = 236 and D = 16 it returns a vector.
C1_NoneIffOutOfReach ==
    SolvedPosition
    => /\ result.raised = ""
       /\ result.value = None
          <=> \/ DistSq(CallWristCenter) > max_reach * max_reach
              \/ DistSq(CallWristCenter) < min_reach * min_reach

\* C2: a vector returned by either solver entry point has seven angles, each
\* within its JOINT_LIMITS pair, and validate_joint_angles accepts it.
C2_ReturnedVectorWithinLimits ==
    Solved /\ ReturnsVector
    => /\ Len(result.value) = 7
       /\ \A i \in 1..7 : WithinLimits(result.value[i], i)
       /\ validate_joint_angles(result.value) = Return(TRUE)

\* a vector came back with joint 1 held at its lower limit
C2_Witness ==
    /\ Solved /\ ReturnsVector /\ op = "cartesian_to_angles_with_orientation"
    /\ result.value[1] = Lo(1) /\ in_position[2] < 0

\* every angle of a 7-vector is within its JOINT_LIMITS pair
InLimits(v) == Len(v) = 7 /\ \A i \in 1..7 : Lo(i) <= v[i] /\ v[i] <= Hi(i)

\* the elbow (joint 3) is at least 30 degrees away from fully extended (0)
\* and from fully folded (180 or -180)
ElbowClear(v) == Abs(v[3]) >= Deg(30) /\ Abs(v[3]) <= Deg(150)

\* C3: round trip.  For a 7-vector within JOINT_LIMITS whose elbow is not
\* near fully extended or fully folded, cartesian_to_angles of its
\* forward_kinematics position returns a vector, and forward_kinematics of
\* that vector is within 5 mm of the position on every axis.
C3_RoundTripWithin5mm ==
    pc = "return" /\ op = "test_round_trip_accuracy"
    /\ InLimits(in_angles) /\ ElbowClear(in_angles)
    => /\ result.raised = ""
       /\ result.value.calculated_angles # None
       /\ MaxOf3(result.value.pos_error) <= Tolerance

\* C4: for the central target (150, 0, 200) with the default aim the solver
\* returns a vector, validate_joint_angles accepts it, and forward_kinematics
\* of it is within 5 mm of (150, 0, 200) on every axis.
C4_CentralTargetReproduced ==
    pc = "return" /\ op = "test_inverse_kinematics" /\ in_position = <<150, 0, 200>>
    => /\ result.raised = ""
       /\ result.value.joint_angles # None
       /\ result.value.valid
       /\ MaxOf3(result.value.error) <= Tolerance

\* directions are tried scaled by 1 .. MaxScale
MaxScale == 3

Scaled(k, d) == <<k * d[1], k * d[2], k * d[3]>>

\* C5: the outcome of cartesian_to_angles does not depend on the length of
\* the direction: for a non-zero direction d and a scale k > 0 the call with
\* k*d returns what the call with d returns.
C5_DirectionScaleInvariant ==
    SolvedPosition
    /\ in_orientation # None /\ in_orientation # <<0, 0, 0>>
    => \A k \in 1..MaxScale :
           cartesian_to_angles(in_position, Scaled(k, in_orientation)) = result

\* a call of one of the four operations of the kinematics engine has returned
EngineCallDone ==
    /\ pc = "return"
    /\ op \in {"forward_kinematics", "cartesian_to_angles",
               "cartesian_to_angles_with_orientation", "validate_joint_angles"}

\* C6 as stated: no operation of the engine raises, whatever its input, a
\* joint vector of a length other than 7 included.
C6_NoOperationRaises == EngineCallDone => result.raised = ""

\* C6 amended: an operation raises exactly when its sequence argument has
\* the wrong length: forward_kinematics raises ValueError when its vector does
\* not have 7 angles, and the two solver entry points raise when the position
\* does not have 3 components.  validate_joint_angles never raises: it
\* returns False for a vector of another length.  An unreachable target is
\* reported by the returned None.
C6_RaisesOnlyOnWrongLength ==
    EngineCallDone
    => /\ result.raised # ""
          <=> \/ op = "forward_kinematics" /\ Len(in_angles) # 7
              \/ /\ op \in {"cartesian_to_angles",
                            "cartesian_to_angles_with_orientation"}
                 /\ Len(in_position) # 3
       /\ result.raised \in {"", "ValueError", "IndexError"}

\* forward_kinematics was given a vector of another length and raised
C6_Witness ==
    /\ pc = "return" /\ op = "forward_kinematics"
    /\ Len(in_angles) # 7 /\ result.raised = "ValueError"

\* a component of v with a JOINT_LIMITS entry lies strictly outside it
SomeComponentOutside(v) ==
    \E i \in 1..Min(Len(v), 7) : v[i] < Lo(i) \/ v[i] > Hi(i)

\* C7 as stated: for every vector v, validate_joint_angles(v) is False
\* exactly when a component of v lies strictly outside its JOINT_LIMITS pair.
C7_FalseIffComponentOutside ==
    pc = "return" /\ op = "validate_joint_angles"
    => result = Return(~SomeComponentOutside(in_angles))

\* C7 amended: validate_joint_angles(v) is False exactly when v does not have
\* 7 components or a component lies strictly outside its JOINT_LIMITS pair;
\* for a 7-vector it is True iff min <= angle <= max for every joint.
C7_FalseIffOutsideOrWrongLength ==
    pc = "return" /\ op = "validate_joint_angles"
    => result = Return(Len(in_angles) = 7 /\ ~SomeComponentOutside(in_angles))

\* a vector of another length with no component outside its limits was
\* rejected
C7_Witness ==
    /\ pc = "return" /\ op = "validate_joint_angles"
    /\ Len(in_angles) # 7 /\ ~SomeComponentOutside(in_angles)
    /\ result = Return(FALSE)

\* the bound of joint i nearest to an angle outside the limits, else the angle
NearestBound(angle, i) ==
    IF angle < Lo(i) THEN Lo(i) ELSE IF angle > Hi(i) THEN Hi(i) ELSE angle

\* the wrist centre of the call fails the reach test
OutOfReach ==
    With(DToWrist(CallWristCenter), LAMBDA d :
         FGt(d, FInt(max_reach)) \/ FGt(FInt(min_reach), d))

\* joint 3 of the call before its limit check
CallJoint3Raw ==
    With(DToWrist(CallWristCenter),
         LAMBDA d : Joint3Raw(d, DistSq(CallWristCenter)))

\* C8: soft-fail clamping.  cartesian_to_angles never raises, returns None
\* only when the reach test fails, and otherwise returns a 7-vector whose
\* joints 1, 2 and 3 are the computed angles, each replaced by the nearest
\* bound of its joint when it falls outside the limits.
C8_SoftFailClamping ==
    SolvedPosition
    => /\ result.raised = ""
       /\ result.value = None => OutOfReach
       /\ result.value # None =>
            /\ Len(result.value) = 7
            /\ result.value[1] = NearestBound(Joint1Raw(in_position), 1)
            /\ result.value[2] = NearestBound(Joint2Raw(CallWristCenter), 2)
            /\ result.value[3] = NearestBound(CallJoint3Raw, 3)

\* a target whose atan2(y, x) is beyond 160 degrees came back with joint 1
\* at 160
C8_Witness ==
    /\ SolvedPosition /\ ReturnsVector
    /\ Joint1Raw(in_position) > Hi(1) /\ result.value[1] = Hi(1)

\* C9: a target at base height whose horizontal distance from the base axis
\* exceeds L1 + L2 makes cartesian_to_angles with the default aim return None.
C9_BeyondReachAtBaseHeight ==
    SolvedPosition /\ in_orientation = None
    /\ in_position[3] = BASE_HEIGHT
    /\ in_position[1] * in_position[1] + in_position[2] * in_position[2]
       > (LINK1_LENGTH + LINK2_LENGTH) * (LINK1_LENGTH + LINK2_LENGTH)
    => result = Return(None)

\* the target 10 mm beyond L1 + L2 at base height was reported unreachable
C9_Witness ==
    /\ SolvedPosition /\ in_orientation = None
    /\ in_position = <<LINK1_LENGTH + LINK2_LENGTH + 10, 0, BASE_HEIGHT>>
    /\ result = Return(None)

\* horizontal distance at most 216 mm and height within [45, 415] mm
InScanWindow(point) ==
    /\ point[1] * point[1] + point[2] * point[2] <= 216 * 216
    /\ 45 <= point[3] /\ point[3] <= 415

\* C10: filter_reachable_points keeps exactly the points whose horizontal
\* distance is at most 216 mm and whose height is in [45, 415], in their
\* order; every other point is left out.
C10_KeepsPointsInWindow ==
    pc = "return" /\ op = "filter_reachable_points"
    => result = Return(SelectSeq(in_points, InScanWindow))

\* of two points, the one 1 mm beyond the horizontal margin was left out
C10_Witness ==
    /\ pc = "return" /\ op = "filter_reachable_points"
    /\ in_points = << <<216, 0, 100>>, <<217, 0, 100>> >>
    /\ result = Return(<< <<216, 0, 100>> >>)

\* s is t with some of its entries left out: same entries, same order
RECURSIVE IsSubsequence(_, _)
IsSubsequence(s, t) ==
    IF s = <<>> THEN TRUE
    ELSE IF t = <<>> THEN FALSE
    ELSE IF Head(s) = Head(t) THEN IsSubsequence(Tail(s), Tail(t))
    ELSE IsSubsequence(s, Tail(t))

\* the places of the input whose point is outside the scan window
RejectedPlaces(points) == {i \in 1..Len(points) : ~InScanWindow(points[i])}

\* C11: the result of filter_reachable_points is a subsequence of its input
\* (the kept points in their original order, none added, duplicated or
\* altered), every point of it is a kept one, and its length is the input
\* length minus the number of rejected points.
C11_ResultIsSubsequenceOfKept ==
    pc = "return" /\ op = "filter_reachable_points"
    => /\ result.raised = ""
       /\ IsSubsequence(result.value, in_points)
       /\ \A i \in 1..Len(result.value) : InScanWindow(result.value[i])
       /\ Len(result.value) = Len(in_points) - Cardinality(RejectedPlaces(in_points))

\* two different kept points came back in the order they were given
C11_Witness ==
    /\ pc = "return" /\ op = "filter_reachable_points"
    /\ Len(in_points) = 2 /\ in_points[1] # in_points[2]
    /\ RejectedPlaces(in_points) = {}
    /\ result = Return(in_points)

\* C12: cartesian_to_angles given the zero-length direction (0, 0, 0) uses
\* the default downward direction in its place: its outcome is that of the
\* call with direction (0, 0, -1).
C12_ZeroDirectionIsDownward ==
    SolvedPosition /\ in_orientation = <<0, 0, 0>>
    => result = cartesian_to_angles(in_position, <<0, 0, -1>>)

\* C13: cartesian_to_angles_with_orientation with the aim point equal to the
\* position has the outcome of cartesian_to_angles with no orientation:
\* both aim along (0, 0, -1).
C13_AimAtPositionIsDefaultAim ==
    pc = "return" /\ op = "cartesian_to_angles_with_orientation"
    /\ Len(in_position) = 3 /\ in_target = in_position
    => result = cartesian_to_angles(in_position, None)

\* a call aimed at its own position returned a joint vector
C13_Witness ==
    /\ pc = "return" /\ op = "cartesian_to_angles_with_orientation"
    /\ Len(in_position) = 3 /\ in_target = in_position
    /\ ReturnsVector

\* C14: forward_kinematics given a vector whose length is not 7 ends the
\* call with ValueError and yields no position; the vector is not padded or
\* truncated.
C14_LengthMismatchFailsCall ==
    pc = "return" /\ op = "forward_kinematics" /\ Len(in_angles) # 7
    => result = Raise("ValueError")

\* a vector of eight angles was refused, not cut to seven
C14_Witness ==
    /\ pc = "return" /\ op = "forward_kinematics"
    /\ Len(in_angles) = 8 /\ result.raised = "ValueError" /\ result.value = None

\* C15: the clamp of a joint leaves an angle already within the limits of
\* the joint as it is, and clamping its result again changes nothing, for
\* every angle and every joint of JOINT_LIMITS.
C15_ClampNoOpAndIdempotent ==
    pc = "return" /\ op = "clamp"
    => /\ result.raised = ""
       /\ Lo(in_joint) <= in_angle /\ in_angle <= Hi(in_joint)
          => result.value = in_angle
       /\ Max(Lo(in_joint), Min(Hi(in_joint), result.value)) = result.value

\* an angle beyond the upper limit of joint 4 was clamped to that limit
C15_Witness ==
    /\ pc = "return" /\ op = "clamp" /\ in_joint = 4
    /\ in_angle = Deg(120) /\ result = Return(Deg(80))

\* C16: in every vector returned by cartesian_to_angles or
\* cartesian_to_angles_with_orientation the roll joints, joint 4 and joint 7,
\* are exactly 0, whatever the position and the aim.
C16_RollJointsZero ==
    Solved /\ ReturnsVector => result.value[4] = 0 /\ result.value[7] = 0

\* a sideways aim turned joints 5 and 6 and left joints 4 and 7 at 0
C16_Witness ==
    /\ SolvedPosition /\ ReturnsVector /\ in_orientation = <<0, 1, 0>>
    /\ result.value[5] # 0 /\ result.value[6] # 0
    /\ result.value[4] = 0 /\ result.value[7] = 0

\* C17: the solver selects the elbow-down branch: in every vector returned
\* by cartesian_to_angles joint 3 lies in [-165, 0], is -(180 - acos(cosJ3))
\* clamped to the limits of joint 3, and is 0 exactly when the distance from
\* the joint-2 origin to the wrist centre is LINK1_LENGTH + LINK2_LENGTH.
C17_ElbowDownBranch ==
    SolvedPosition /\ ReturnsVector
    => /\ Lo(3) <= result.value[3] /\ result.value[3] <= 0
       /\ result.value[3] = NearestBound(CallJoint3Raw, 3)
       /\ result.value[3] = 0
          <=> DistSq(CallWristCenter) = max_reach * max_reach

\* the position turned back by theta about the vertical axis, scaled by
\* TrigScale: <<x cos + y sin, y cos - x sin>>
TurnedBack(position, theta) ==
    With(CosSin(theta), LAMBDA cs :
         <<position[1] * cs[1] + position[2] * cs[2],
           position[2] * cs[1] - position[1] * cs[2]>>)

\* theta is the azimuth of the position: turned back by theta the position
\* lies on the positive x axis, to within 8 parts in TrigScale
IsAzimuth(position, theta) ==
    With(TurnedBack(position, theta), LAMBDA t :
         /\ t[1] >= 0
         /\ Abs(t[2]) <= 8 * (Abs(position[1]) + Abs(position[2])))

\* C18: for a target within reach, joint 1 of the vector returned by
\* cartesian_to_angles is atan2(y, x) in degrees whenever that angle lies
\* within the limits of joint 1, and so is the azimuth of the target; for
\* the target (100, 100, BASE_HEIGHT) it is 45 degrees to within 0.01 degree.
C18_Joint1IsAzimuth ==
    SolvedPosition /\ ReturnsVector
    => /\ WithinLimits(Atan2(in_position[2], in_position[1]), 1)
          => /\ result.value[1] = Atan2(in_position[2], in_position[1])
             /\ IsAzimuth(in_position, result.value[1])
       /\ in_position = <<100, 100, BASE_HEIGHT>>
          => Abs(result.value[1] - Deg(45)) * 100 <= Deg(1)

\* the target (100, 100, BASE_HEIGHT) with the default aim was solved with
\* joint 1 at 45 degrees, the azimuth of the target
C18_Witness ==
    /\ SolvedPosition /\ ReturnsVector /\ in_orientation = None
    /\ in_position = <<100, 100, BASE_HEIGHT>>
    /\ Abs(result.value[1] - Deg(45)) * 100 <= Deg(1)
    /\ IsAzimuth(in_position, result.value[1])

\* a call of forward_kinematics with seven angles, joints 2 to 7 at zero
HomeCall ==
    /\ pc = "return" /\ op = "forward_kinematics" /\ Len(in_angles) = 7
    /\ \A i \in 2..7 : in_angles[i] = 0

\* the position is (0, 0, 93) mm to within a tenth of a millimetre
NearHome(p) ==
    \A k \in 1..3 : Abs(p[k] - InUnits(<<0, 0, 93>>)[k]) * 10 <= TrigScale

\* C20: with joints 2 to 7 at zero forward_kinematics returns approximately
\* (0, 0, 93) mm, for the home pose and for a base rotation of 90 degrees
\* alike: the position is on the base axis, at height 93 mm, whatever the
\* angle of joint 1.
C20_HomeOnBaseAxis ==
    HomeCall => result.raised = "" /\ NearHome(result.value)

\* the base turned by 90 degrees, the end effector at (0, 0, 93) mm
C20_Witness ==
    /\ HomeCall /\ in_angles[1] = Deg(90)
    /\ result.raised = "" /\ NearHome(result.value)

\* C19: the engine keeps no mutable state.  No step of a call of
\* forward_kinematics, cartesian_to_angles,
\* cartesian_to_angles_with_orientation or validate_joint_angles writes
\* JOINT_LIMITS or the link constants, and under every interleaving of the
\* steps of the threads every call returns what it returns when it runs
\* alone.
C19_CallsDoNotInterfere ==
    /\ Imported
    /\ \A t \in DOMAIN calls :
          calls[t].pc = "return" => calls[t].result = Alone(calls[t].call)

\* thread a returned a joint vector from a call of cartesian_to_angles with
\* clamped joints, thread b took steps in the middle of that call and is
\* itself between the reads of a call of cartesian_to_angles that thread a
\* interleaved
C19_Witness ==
    /\ DOMAIN calls = Threads
    /\ calls["a"].pc = "return" /\ calls["a"].interleaved
    /\ calls["a"].call = <<"cartesian_to_angles", <<-100, 10, 200>>, <<0, 0, -1>>>>
    /\ calls["a"].result.raised = "" /\ calls["a"].result.value # None
    /\ Len(calls["a"].seen) = Len(SolverReads)
    /\ calls["b"].pc = "run" /\ calls["b"].at = 3 /\ calls["b"].interleaved
    /\ calls["b"].call = <<"cartesian_to_angles", <<150, 0, 200>>, None>>

\* C21: cartesian_to_angles with the default aim returns None for the target
\* on the base axis at base height, (0, 0, BASE_HEIGHT), as too close to the
\* arm.
C21_BaseCentreTooClose ==
    /\ SolvedPosition /\ in_orientation = None
    /\ in_position = <<0, 0, BASE_HEIGHT>>
    => result = Return(None)

\* C22: cartesian_to_angles with the default aim returns None for the very
\* low target (100, 0, BASE_HEIGHT - 200).
C22_VeryLowUnreachable ==
    /\ SolvedPosition /\ in_orientation = None
    /\ in_position = <<100, 0, BASE_HEIGHT - 200>>
    => result = Return(None)

\* the places of the points that the filter discards
Discarded(points) == {k \in 1..Len(points) : ~KeepsPoint(points[k])}

\* C23: the workspace filter is looser than the reach test of the solver.
\* Every point that filter_reachable_points discards is one for which
\* cartesian_to_angles with the default aim returns None, and every target
\* that cartesian_to_angles solves with the default aim passes the filter.
C23_FilterLooserThanSolver ==
    /\ SolvedPosition /\ in_orientation = None /\ ReturnsVector
       => filter_reachable_points(<<in_position>>) = <<in_position>>
    /\ pc = "return" /\ op = "filter_reachable_points"
       => \A k \in Discarded(in_points) :
             cartesian_to_angles(in_points[k], None) = Return(None)

\* what cartesian_to_angles returns with the default aim for each point of
\* SpherePoints
SolvedWithDefaultAim == [q \in SpherePoints |-> cartesian_to_angles(q, None)]

\* the commands of the log sent from the loop over the scan points
PointCommands == {k \in 1..Len(scan.log) : scan.log[k].at = "point"}

\* C24: in perform_scan every send_angles command other than the two
\* home-pose commands carries the vector that cartesian_to_angles returned,
\* not None, for its scan point and that validate_joint_angles accepted;
\* for a point that is unreachable or fails validation no command is sent.
C24_OnlyValidatedVectorsSent ==
    scan # NotRunning
    => /\ \A k \in PointCommands :
             /\ scan.log[k].cmd = "send_angles"
             /\ scan.log[k].angles # None
             /\ Return(scan.log[k].angles)
                    = SolvedWithDefaultAim[scan.points[scan.log[k].point]]
             /\ validate_joint_angles(scan.log[k].angles) = Return(TRUE)
       /\ \A k \in 1..Len(scan.log) :
             scan.log[k].at # "point" => scan.log[k].angles \in {home_angles, <<>>}
       /\ \A j \in scan.skipped :
             /\ Skips(SolvedWithDefaultAim[scan.points[j]])
             /\ \A k \in PointCommands : scan.log[k].point # j

\* a run that skipped its first point, which the solver cannot reach, and
\* sent the vector of its second point to the arm
C24_Witness ==
    /\ scan # NotRunning
    /\ scan.points = <<<<180, 0, 330>>, <<100, 0, 250>>>>
    /\ scan.skipped = {1}
    /\ \E k \in PointCommands :
          scan.log[k].point = 2 /\ scan.log[k].angles # None

\* C25: however the try block of __main__ ends, by perform_scan completing,
\* by an exception or by an interrupt of the user, the last movement command
\* the arm accepted is the all-zero safe pose; a stop is attempted only if
\* the send of the safe pose failed, and the wait after the stop ends after
\* at most 50 polls.
C25_EndsInSafePose ==
    scan # NotRunning
    => /\ scan.timeout_count <= StopPolls
       /\ scan.stop_attempted => scan.safe_failed
       /\ scan.pc = "done" /\ ~scan.safe_failed
          => /\ scan.log # <<>>
             /\ scan.log[Len(scan.log)]
                    = Command("send_angles", home_angles, "finally", 0)
       /\ scan.pc = "done" /\ scan.safe_failed
          => scan.stop_attempted = scan.has_stop

\* a run interrupted after a scan point was sent to the arm ended with the
\* safe pose as its last command
C25_Witness ==
    /\ scan # NotRunning
    /\ scan.pc = "done" /\ scan.how = "interrupted" /\ ~scan.safe_failed
    /\ Len(scan.log) >= 3
    /\ scan.log[Len(scan.log) - 1].at = "point"
    /\ scan.log[Len(scan.log)] = Command("send_angles", home_angles, "finally", 0)

\* the call has returned
Waited == waiting # NotRunning /\ waiting.pc = "return"

\* the last poll saw the arm at rest at the target: as many angles as the
\* target has, each within angle_tolerance of its target
SawArmAtTarget ==
    /\ waiting.polls > 0
    /\ waiting.has_is_moving => waiting.is_moving = "False"
    /\ waiting.current_angles.raised = ""
    /\ Len(waiting.current_angles.value) = Len(waiting.target_angles)
    /\ \A i \in 1..Len(waiting.target_angles) :
          Abs(waiting.target_angles[i] - waiting.current_angles.value[i])
             <= waiting.angle_tolerance

\* C26: wait_for_movement_completion always returns.  It returns True only
\* at a poll where the arm reports as many angles as the target has, each
\* within angle_tolerance of its target, and, where the arm has is_moving,
\* reports that it does not move; when no such poll comes before the timeout
\* has elapsed, also when every read of the arm raises, it returns False.
C26_WaitAlwaysReturns ==
    /\ <>Waited
    /\ [](Waited
          => /\ waiting.result \in BOOLEAN
             /\ waiting.result <=> SawArmAtTarget
             /\ ~waiting.result => waiting.elapsed >= waiting.timeout)

\* a call returned True at its second poll, the arm at rest within two
\* degrees of the target after a poll that found it moving
C26_Witness ==
    /\ Waited /\ waiting.result = TRUE /\ waiting.polls = 2
    /\ waiting.has_is_moving /\ waiting.angle_tolerance = 2
    /\ waiting.target_angles = <<30, -45>>
    /\ waiting.current_angles = Return(<<32, -47>>)

\* C27: replay_positions sends no movement command unless the user answers
\* y or yes at the confirmation prompt; on any other answer it returns False
\* without a send_radians call; after the confirmation the positions are
\* sent in the recorded order, each at most once.
C27_NoMoveWithoutConsent ==
    replay # NotRunning
    => /\ replay.sent # <<>>
          => Response(replay.answer) \in {<<"y">>, <<"y", "e", "s">>}
       /\ replay.pc = "done" /\ replay.loaded.raised = ""
          /\ Response(replay.answer) \notin {<<"y">>, <<"y", "e", "s">>}
          => replay.returned = "False" /\ replay.sent = <<>>
       /\ \A k \in 1..Len(replay.sent) :
             /\ replay.sent[k].i \in 1..Len(replay.positions)
             /\ replay.sent[k].angles
                   = replay.positions[replay.sent[k].i].angles_radians
             /\ \A j \in 1..(k - 1) : replay.sent[j].i < replay.sent[k].i

\* after the answer " Y " both positions of a recording were sent, the first
\* before the second
C27_Witness ==
    /\ replay # NotRunning
    /\ replay.answer = <<" ", "Y", " ">>
    /\ Len(replay.sent) = 2
    /\ replay.sent[1].i = 1 /\ replay.sent[2].i = 2
    /\ replay.returned = "True"

\* C28: in replay_positions every attempted position increments exactly one
\* of successful_moves and failed_moves: whenever the loop is at its head
\* or has ended, also by the user stopping after an error or interrupting,
\* successful_moves + failed_moves is the number of positions attempted so
\* far and is at most the number of loaded positions.
C28_EveryAttemptCountedOnce ==
    replay # NotRunning /\ replay.pc \in {"loop", "summary", "done"}
    /\ replay.returned # "TypeError"
    => /\ replay.successful_moves + replay.failed_moves = replay.attempted
       /\ replay.successful_moves + replay.failed_moves <= Len(replay.positions)

\* a recording is well formed: it has positions, and every position has an
\* 'angles_radians' entry of exactly seven angles
WellFormed(file) ==
    /\ file.error = "" /\ "positions" \in DOMAIN file.data
    /\ file.data.positions # <<>>
    /\ \A k \in 1..Len(file.data.positions) :
          /\ "angles_radians" \in DOMAIN file.data.positions[k]
          /\ Len(file.data.positions[k].angles_radians) = 7
          /\ \A a \in 1..7 :
                file.data.positions[k].angles_radians[a].json = "number"

\* C29: load_recording_file returns only a non-empty list of positions each
\* of which has an 'angles_radians' entry of exactly 7 angles, and raises an
\* error for an empty list, a missing entry or a wrong length; after an
\* error main starts no replay, so that replay_positions never runs on an
\* empty or malformed recording.
C29_OnlyWellFormedRecordingsReplayed ==
    replay # NotRunning /\ replay.pc # "main"
    => /\ replay.loaded.raised = "" <=> WellFormed(replay.file)
       /\ replay.loaded.raised # ""
          => /\ replay.pc = "done" /\ replay.returned = "none"
             /\ replay.sent = <<>> /\ replay.attempted = 0
       /\ replay.pc \notin {"main", "done"} => WellFormed(replay.file)

\* the republished messages of the topic that were received before msg
RepublishedBefore(msg) ==
    {k \in 1..Len(republisher.published) :
        /\ republisher.published[k].topic = msg.topic
        /\ republisher.published[k].id < msg.id}

\* the message was handed to the publisher of its topic
Republished(msg) ==
    \E k \in 1..Len(republisher.published) : republisher.published[k] = msg

\* C30: the rate limit of TopicRepublisher.  The first message of a topic
\* is republished; a later message is republished if and only if at least
\* rate_interval has passed since the last republish on its topic, so that
\* two republishes on one topic are never closer than rate_interval; and
\* the last publish time of a topic is the time of its own last republish,
\* which a message on the other topic never changes.
C30_RateLimitPerTopic ==
    republisher # NotRunning
    => /\ \A j \in 1..Len(republisher.received) :
             LET msg == republisher.received[j]
             IN  Republished(msg)
                 <=> \A k \in RepublishedBefore(msg) :
                        msg.at - republisher.published[k].at
                           >= republisher.rate_interval
       /\ \A j, k \in 1..Len(republisher.published) :
             /\ j < k
             /\ republisher.published[j].topic = republisher.published[k].topic
             => republisher.published[k].at - republisher.published[j].at
                   >= republisher.rate_interval
       /\ \A t \in Topics :
             LET own == {k \in 1..Len(republisher.published) :
                            republisher.published[k].topic = t}
             IN  republisher.last_publish_times[t] =
                    IF own = {} THEN 0
                    ELSE republisher.published[
                             CHOOSE k \in own : \A j \in own : j <= k].at

\* at 0.5 Hz two messages of one topic were republished two seconds apart,
\* a message of that topic between them was dropped, and a message of the
\* other topic was republished in the meantime
C30_Witness ==
    /\ republisher # NotRunning
    /\ republisher.rate_interval = 2
    /\ Len(republisher.received) = 4 /\ Len(republisher.published) = 3
    /\ republisher.received[1].topic = "color"
    /\ republisher.received[2].topic = "color"
    /\ republisher.received[2].at = Epoch + 1
    /\ ~Republished(republisher.received[2])
    /\ republisher.received[3].topic = "depth"
    /\ republisher.received[4].topic = "color"
    /\ republisher.received[4].at = Epoch + 2
    /\ Republished(republisher.received[4])

=============================================================================
